---- MODULE Spec2Model ----
(***************************************************************************)
(* A model of the Variable layer of the dataset library: Dimensions,       *)
(* copy-on-write storage, strided views, in-place arithmetic, slicing,     *)
(* concatenation and equality, as implemented in src/src/variable.cpp.     *)
(*                                                                         *)
(* Element values: double, int64 and string elements are integers (a       *)
(* string is a token), a ValueWithDelta element is the pair                *)
(* <<value, delta>>, a nested Dataset (event list) is the Dimensions of    *)
(* that Dataset.  Buffers are 1-based sequences; C++ index k is k + 1.     *)
(***************************************************************************)
EXTENDS Integers, Sequences, FiniteSets

VARIABLES vars, heap, last, pre, steps, subject

\* vars and heap are the Variables of the program and their storage, last
\* and pre the last call and the machine before it.  subject is the object
\* the calls are made on where that is no Variable: a Dataset with a Slice
\* of it, a Dimensions, a view or an index.
state == <<vars, heap, last, pre, steps, subject>>

(***************************************************************************)
(* Bounds of the model.                                                    *)
(***************************************************************************)
MaxSteps == 2
MaxExtent == 2

(***************************************************************************)
(* Dimensions (src/src/dimensions.h).  A Dimensions value is the sequence  *)
(* of its (label, size) pairs, outermost first.                            *)
(***************************************************************************)
Dim == {"X", "Y", "Z", "Event"}

RECURSIVE volumeFrom(_, _)
volumeFrom(dims, i) ==
  IF i > Len(dims) THEN 1 ELSE dims[i].size * volumeFrom(dims, i + 1)

volume(dims) == volumeFrom(dims, 1)

ndim(dims) == Len(dims)

contains(dims, dim) == \E i \in 1..Len(dims) : dims[i].label = dim

index(dims, dim) == CHOOSE i \in 1..Len(dims) : dims[i].label = dim

size(dims, dim) == dims[index(dims, dim)].size

label(dims, i) == dims[i].label

\* Product of the extents strictly after `dim`.
offset(dims, dim) == volumeFrom(dims, index(dims, dim) + 1)

containsDims(dims, other) ==
  \A i \in 1..Len(other) :
    contains(dims, other[i].label) /\ size(dims, other[i].label) = other[i].size

isContiguousIn(dims, parent) ==
  \/ Len(dims) = 0
  \/ /\ Len(dims) <= Len(parent)
     /\ \A i \in 1..Len(dims) : dims[i] = parent[Len(parent) - Len(dims) + i]

resize(dims, dim, n) ==
  [i \in 1..Len(dims) |->
     IF dims[i].label = dim THEN [label |-> dim, size |-> n] ELSE dims[i]]

erase(dims, dim) ==
  LET k == index(dims, dim)
  IN  [i \in 1..(Len(dims) - 1) |-> IF i < k THEN dims[i] ELSE dims[i + 1]]

\* The added Dim becomes the outermost one.
add(dims, dim, n) == <<[label |-> dim, size |-> n]>> \o dims

relabel(dims, i, lab) == [dims EXCEPT ![i].label = lab]

D1(d, n) == <<[label |-> d, size |-> n]>>

D2(d1, n1, d2, n2) == <<[label |-> d1, size |-> n1], [label |-> d2, size |-> n2]>>

(***************************************************************************)
(* Unit: identifiers closed under a multiplication table.                  *)
(***************************************************************************)
Unit == {"Dimensionless", "Length", "Area"}

\* Unit * Unit; "none" when the table has no entry (the product throws).
unitTimes(a, b) ==
  IF a = "Dimensionless" THEN b
  ELSE IF b = "Dimensionless" THEN a
  ELSE IF a = "Length" /\ b = "Length" THEN "Area"
  ELSE "none"

(***************************************************************************)
(* Tags (src/src/tags.h): element type, default unit, coordinate or data.  *)
(***************************************************************************)
Tag == {"X", "Mask", "Value", "Int", "String", "Events", "FuzzyTemperature"}

elementType(tag) ==
  CASE tag = "X" -> "double"
    [] tag = "Mask" -> "char"
    [] tag = "Value" -> "double"
    [] tag = "Int" -> "int64"
    [] tag = "String" -> "string"
    [] tag = "Events" -> "Dataset"
    [] tag = "FuzzyTemperature" -> "ValueWithDelta"

defaultUnit(tag) == IF tag = "X" THEN "Length" ELSE "Dimensionless"

isCoord(tag) == tag \in {"X", "Mask", "FuzzyTemperature"}

\* ValueWithDelta::operator== and the built-in == of the other element types.
elementEquals(etype, x, y) ==
  IF etype = "ValueWithDelta"
  THEN LET d == IF x[1] >= y[1] THEN x[1] - y[1] ELSE y[1] - x[1]
           m == IF x[2] >= y[2] THEN x[2] ELSE y[2]
       IN  d < m
  ELSE x = y

(***************************************************************************)
(* The heap of storage objects (VariableModel<Vector<T>>) and the          *)
(* Variables that refer to them through a cow_ptr.  The Locals are the     *)
(* Variables of a function body and of a call expression (`auto out(var)`, *)
(* a temporary argument), unset between actions.                           *)
(***************************************************************************)
Names == {"a", "b"}

Locals == {"tmp", "old", "new"}

ObjIds == 1..(Cardinality(Names) + Cardinality(Locals))

Free == [etype |-> "none", dims |-> <<>>, data |-> <<>>]

NoVariable == [type |-> "none", name |-> "", unit |-> "Dimensionless", obj |-> 0]

refcount(m, o) == Cardinality({n \in DOMAIN m.vars : m.vars[n].obj = o})

freshObj(m) ==
  CHOOSE o \in ObjIds :
    /\ m.heap[o] = Free
    /\ \A n \in DOMAIN m.vars : m.vars[n].obj # o
    /\ \A p \in ObjIds :
         (m.heap[p] = Free /\ \A n \in DOMAIN m.vars : m.vars[n].obj # p) => o <= p

\* cow_ptr::access: clone the object when it is shared, then hand it out.
access(m, n) ==
  IF refcount(m, m.vars[n].obj) > 1
  THEN LET o == freshObj(m)
       IN  [vars |-> [m.vars EXCEPT ![n].obj = o],
            heap |-> [m.heap EXCEPT ![o] = m.heap[m.vars[n].obj]]]
  ELSE m

\* Objects no Variable refers to any more are released.
collect(m) ==
  [vars |-> m.vars,
   heap |-> [o \in ObjIds |->
               IF \E n \in DOMAIN m.vars : m.vars[n].obj = o
               THEN m.heap[o] ELSE Free]]

dimensions(m, n) == m.heap[m.vars[n].obj].dims

values(m, n) == m.heap[m.vars[n].obj].data

(***************************************************************************)
(* VariableConcept: an owning model or a VariableView into an object.      *)
(* A view is (object, offset of its first element, the Dimensions of the   *)
(* object it points into, its own target Dimensions).                      *)
(***************************************************************************)
\* Variable::data() const: the owning model, no copy.
constData(m, n) ==
  [view |-> FALSE, const |-> TRUE, obj |-> m.vars[n].obj, off |-> 0,
   pdims |-> dimensions(m, n), dims |-> dimensions(m, n)]

\* The concept that Variable::data() returns after access().
mutableData(m, n) == [constData(m, n) EXCEPT !.const = FALSE]

\* VariableModel::size(): m_model.size() of the vector or of the view.
conceptSize(h, c) == IF c.view THEN volume(c.dims) ELSE Len(h[c.obj].data)

\* Stride of `dim` in the object a view points into; 0 when it has no such Dim.
stride(pdims, dim) == IF contains(pdims, dim) THEN offset(pdims, dim) ELSE 0

\* VariableView(other, dims): Dims the other view dropped no longer stride.
relabelDropped(pdims, dims) ==
  [i \in 1..Len(pdims) |->
     IF contains(dims, pdims[i].label) THEN pdims[i]
     ELSE [label |-> "Invalid", size |-> pdims[i].size]]

RECURSIVE viewOffsetFrom(_, _, _)
viewOffsetFrom(v, k, i) ==
  IF i > Len(v.dims) THEN 0
  ELSE ((k \div volumeFrom(v.dims, i + 1)) % v.dims[i].size)
         * stride(v.pdims, v.dims[i].label)
       + viewOffsetFrom(v, k, i + 1)

\* Buffer positions (1-based) visited by iterating a span over the concept.
spanIndices(h, c) == [k \in 1..conceptSize(h, c) |-> c.off + k]

\* Buffer positions (1-based) visited by iterating a VariableView.
viewIndices(v) ==
  [k \in 1..volume(v.dims) |-> v.off + 1 + viewOffsetFrom(v, k - 1, 1)]

CastHelper_getSpan(h, c) == spanIndices(h, c)

CastHelper_getView(c, dims) ==
  IF ~c.view
  THEN [view |-> TRUE, const |-> c.const, obj |-> c.obj, off |-> 0,
        pdims |-> c.dims, dims |-> dims]
  ELSE [view |-> TRUE, const |-> c.const, obj |-> c.obj, off |-> c.off,
        pdims |-> relabelDropped(c.pdims, c.dims), dims |-> dims]

\* A variant of getView(concept, dims, dim, begin) that leaves out the offset
\* of `begin`.
CastHelper_getViewAtOrigin(c, dims, dim, begin) ==
  IF ~c.view
  THEN [view |-> TRUE, const |-> c.const, obj |-> c.obj, off |-> 0,
        pdims |-> c.dims, dims |-> dims]
  ELSE [view |-> TRUE, const |-> c.const, obj |-> c.obj, off |-> c.off,
        pdims |-> relabelDropped(c.pdims, c.dims), dims |-> dims]

CastHelper_getViewAt(c, dims, dim, begin) ==
  IF ~c.view
  THEN [view |-> TRUE, const |-> c.const, obj |-> c.obj,
        off |-> IF contains(c.dims, dim) THEN begin * offset(c.dims, dim)
                ELSE begin * volume(c.dims),
        pdims |-> c.dims, dims |-> dims]
  ELSE [view |-> TRUE, const |-> c.const, obj |-> c.obj,
        off |-> c.off + begin * stride(c.pdims, dim),
        pdims |-> relabelDropped(c.pdims, c.dims), dims |-> dims]

\* VariableModel::makeView(dim, begin, end); end = -1 is a point slice.
makeView(c, dim, begin, end) ==
  LET dims == IF end = -1 THEN erase(c.dims, dim)
              ELSE resize(c.dims, dim, end - begin)
  IN  CastHelper_getViewAt(c, dims, dim, begin)

isContiguous(c) == IF ~c.view THEN TRUE ELSE isContiguousIn(c.dims, c.pdims)

(***************************************************************************)
(* Element-wise arithmetic: ArithmeticHelper and VariableModel::apply.     *)
(***************************************************************************)
arithmetic(op, x, y) ==
  CASE op = "+" -> x + y
    [] op = "-" -> x - y
    [] op = "*" -> x * y

\* std::transform(a.begin(), a.end(), b.begin(), a.begin(), Op<T>()): one
\* element after the other, reading the heap as the earlier writes left it.
RECURSIVE transform(_, _, _, _, _, _, _)
transform(h, lo, li, ro, ri, op, k) ==
  IF k > Len(li) THEN h
  ELSE transform([h EXCEPT ![lo].data[li[k]] =
                      arithmetic(op, h[lo].data[li[k]], h[ro].data[ri[k]])],
                 lo, li, ro, ri, op, k + 1)

ArithmeticHelper_apply(h, etype, lo, li, ro, ri, op) ==
  IF etype = "string" THEN [heap |-> h, res |-> "StringsNotAddable"]
  ELSE IF etype \notin {"double", "int64"}
  THEN [heap |-> h, res |-> "NotArithmetic"]
  ELSE [heap |-> transform(h, lo, li, ro, ri, op, 1), res |-> "ok"]

\* The iteration over the lhs: a span when contiguous, else the view itself.
lhsIndices(h, this) ==
  IF isContiguous(this) THEN CastHelper_getSpan(h, this) ELSE viewIndices(this)

\* A variant of rhsIndices that takes the flat path whenever the element
\* counts agree, without looking at the order of the Dims.
rhsIndicesBySize(h, this, other) ==
  IF isContiguous(other) /\ volume(this.dims) = volume(other.dims)
  THEN CastHelper_getSpan(h, other)
  ELSE viewIndices(CastHelper_getView(other, this.dims))

\* The iteration over the rhs: a span when it is laid out like the lhs, else
\* a view of it with the Dimensions of the lhs (broadcast, transpose).
rhsIndices(h, this, other) ==
  IF isContiguous(other) /\ isContiguousIn(this.dims, other.dims)
  THEN CastHelper_getSpan(h, other)
  ELSE viewIndices(CastHelper_getView(other, this.dims))

VariableModel_apply(h, this, other, op) ==
  IF h[this.obj].etype # h[other.obj].etype
  THEN [heap |-> h, res |-> "TypeMismatch"]
  ELSE IF this.view /\ this.const
  THEN [heap |-> h, res |-> "ConstView"]
  ELSE ArithmeticHelper_apply(h, h[this.obj].etype,
                              this.obj, lhsIndices(h, this),
                              other.obj, rhsIndices(h, this, other), op)

(***************************************************************************)
(* VariableModel::copy: copy the range [otherBegin, otherEnd) of `other`   *)
(* along `dim` into *this at `offset` along `dim`.                         *)
(***************************************************************************)
\* CastHelper::getSpan(concept, dim, begin, end).  `viewHelper` tells which
\* CastHelper is used: the one of a VariableView model refuses views.
\* The result is [res, idx]: the buffer positions of the span.
CastHelper_getSpanRange(viewHelper, h, c, dim, begin, end) ==
  IF viewHelper /\ c.view THEN [res |-> "SubSpanOfView", idx |-> <<>>]
  ELSE IF ~contains(c.dims, dim) /\ (begin # 0 \/ end # 1)
  THEN [res |-> "SliceIndexOutOfRange", idx |-> <<>>]
  ELSE IF ~contains(c.dims, dim) \/ size(c.dims, dim) = end - begin
  THEN [res |-> "ok", idx |-> spanIndices(h, c)]
  ELSE LET beginOffset == begin * offset(c.dims, dim)
           endOffset == end * offset(c.dims, dim)
       IN  [res |-> "ok",
            idx |-> [k \in 1..(endOffset - beginOffset) |->
                       c.off + beginOffset + k]]

\* An access outside the buffer of an object (undefined behaviour in C++).
outside(h, o, i) == i < 1 \/ i > Len(h[o].data)

\* std::copy(source.begin(), source.end(), target.begin()), element by
\* element; "undefined" as soon as an element outside a buffer is touched.
RECURSIVE CopyHelper_copy(_, _, _, _, _, _)
CopyHelper_copy(h, so, si, to, ti, k) ==
  IF k > Len(si) THEN [heap |-> h, res |-> "ok"]
  ELSE IF k > Len(ti) \/ outside(h, so, si[k]) \/ outside(h, to, ti[k])
  THEN [heap |-> h, res |-> "undefined"]
  ELSE CopyHelper_copy([h EXCEPT ![to].data[ti[k]] = h[so].data[si[k]]],
                       so, si, to, ti, k + 1)

\* A variant of copy that reads the source as a span whenever it is not a
\* view, without looking at the order of its Dims.
VariableModel_copyFlat(h, this, other, dim, offs, otherBegin, otherEnd) ==
  LET delta == otherEnd - otherBegin
      iterDims == IF contains(this.dims, dim) THEN resize(this.dims, dim, delta)
                  ELSE this.dims
      otherView == CastHelper_getViewAt(other, iterDims, dim, otherBegin)
      otherSpan == CastHelper_getSpanRange(this.view, h, other, dim,
                                           otherBegin, otherEnd)
      otherFlat == isContiguous(other)
      thisFlat == isContiguous(this) /\ isContiguousIn(iterDims, this.dims)
      target == IF thisFlat
                THEN CastHelper_getSpanRange(this.view, h, this, dim,
                                             offs, offs + delta)
                ELSE [res |-> "ok",
                      idx |-> viewIndices(
                                CastHelper_getViewAt(this, iterDims, dim, offs))]
      source == IF otherFlat THEN otherSpan
                ELSE [res |-> "ok", idx |-> viewIndices(otherView)]
  IN  IF h[this.obj].etype # h[other.obj].etype
      THEN [heap |-> h, res |-> "BadCast"]
      ELSE IF target.res # "ok" THEN [heap |-> h, res |-> target.res]
      ELSE IF source.res # "ok" THEN [heap |-> h, res |-> source.res]
      ELSE IF this.view /\ this.const THEN [heap |-> h, res |-> "ConstView"]
      ELSE CopyHelper_copy(h, other.obj, source.idx, this.obj, target.idx, 1)

VariableModel_copy(h, this, other, dim, offs, otherBegin, otherEnd) ==
  LET delta == otherEnd - otherBegin
      iterDims == IF contains(this.dims, dim) THEN resize(this.dims, dim, delta)
                  ELSE this.dims
      otherView == CastHelper_getViewAt(other, iterDims, dim, otherBegin)
      otherSpan == CastHelper_getSpanRange(this.view, h, other, dim,
                                           otherBegin, otherEnd)
      otherFlat == isContiguous(other) /\ isContiguousIn(iterDims, other.dims)
      thisFlat == isContiguous(this) /\ isContiguousIn(iterDims, this.dims)
      target == IF thisFlat
                THEN CastHelper_getSpanRange(this.view, h, this, dim,
                                             offs, offs + delta)
                ELSE [res |-> "ok",
                      idx |-> viewIndices(
                                CastHelper_getViewAt(this, iterDims, dim, offs))]
      source == IF otherFlat THEN otherSpan
                ELSE [res |-> "ok", idx |-> viewIndices(otherView)]
  IN  IF h[this.obj].etype # h[other.obj].etype
      THEN [heap |-> h, res |-> "BadCast"]
      ELSE IF target.res # "ok" THEN [heap |-> h, res |-> target.res]
      ELSE IF source.res # "ok" THEN [heap |-> h, res |-> source.res]
      ELSE IF this.view /\ this.const THEN [heap |-> h, res |-> "ConstView"]
      ELSE CopyHelper_copy(h, other.obj, source.idx, this.obj, target.idx, 1)

(***************************************************************************)
(* Operands.  An operand is a Variable or a VariableSlice of one: the      *)
(* Variable `v`, whether it is taken as const, and the restrictions        *)
(* (dim, begin, end) applied in order; end = -1 is a point slice.          *)
(***************************************************************************)
Var(n) == [v |-> n, slice |-> FALSE, const |-> TRUE, restr |-> <<>>]

Slice(n, c, rs) == [v |-> n, slice |-> TRUE, const |-> c, restr |-> rs]

R(d, b, e) == [dim |-> d, begin |-> b, end |-> e]

RECURSIVE restrict(_, _, _)
restrict(c, rs, i) ==
  IF i > Len(rs) THEN c
  ELSE restrict(makeView(c, rs[i].dim, rs[i].begin, rs[i].end), rs, i + 1)

\* Variable::data(): the non-const overload goes through cow_ptr::access.
Variable_data(m, n) == access(m, n)

\* VariableSlice(variable, dim, begin, end): variable.data().makeView(...).
\* Creating a slice of a non-const Variable is a mutating access to it.
VariableSlice_new(m, o) ==
  LET m1 == IF o.const THEN m ELSE Variable_data(m, o.v)
      c0 == IF o.const THEN constData(m1, o.v) ELSE mutableData(m1, o.v)
  IN  [m |-> m1, c |-> restrict(c0, o.restr, 1)]

\* The operand as the callee sees it: the machine after the slice was made,
\* the concept data() returns, and type(), unit(), name() of the Variable.
operand(m, o) ==
  LET s == IF o.slice THEN VariableSlice_new(m, o)
           ELSE [m |-> m, c |-> constData(m, o.v)]
  IN  [m |-> s.m, c |-> s.c, v |-> o.v, slice |-> o.slice,
       type |-> m.vars[o.v].type, unit |-> m.vars[o.v].unit,
       name |-> m.vars[o.v].name]

Result(m, r) == [vars |-> m.vars, heap |-> m.heap, res |-> r]

(***************************************************************************)
(* Event lists: the nested Datasets of a Data::Events Variable.            *)
(***************************************************************************)
\* concatenate(Dataset, Dataset, dim) on the Dimensions of an event list.
Dataset_concatenate(d1, d2, dim) ==
  resize(d1, dim, size(d1, dim) + size(d2, dim))

\* datasets[i] = concatenate(datasets[i], otherDatasets[i], dim) for every i.
RECURSIVE concatenateLists(_, _, _, _, _, _, _)
concatenateLists(h, lo, li, ro, ri, dim, i) ==
  IF i > Len(li) THEN h
  ELSE concatenateLists(
         [h EXCEPT ![lo].data[li[i]] =
            Dataset_concatenate(h[lo].data[li[i]], h[ro].data[ri[i]], dim)],
         lo, li, ro, ri, dim, i + 1)

\* A variant of the event-list branch that appends the first list of the rhs
\* to every list of the lhs.
plusEqualsEventsFirst(m, n, isSlice, this, o) ==
  IF this.dims # o.c.dims THEN Result(m, "DimensionMismatch")
  ELSE IF m.heap[o.c.obj].etype # "Dataset" THEN Result(m, "BadCast")
  ELSE LET ri == IF o.c.view THEN viewIndices(o.c) ELSE spanIndices(m.heap, o.c)
           m1 == IF isSlice THEN m ELSE access(m, n)
           c1 == IF isSlice THEN this ELSE mutableData(m1, n)
           li == IF c1.view THEN viewIndices(c1) ELSE spanIndices(m1.heap, c1)
           dim == label(m1.heap[c1.obj].data[li[1]], 1)
       IN  [vars |-> m1.vars,
            heap |-> concatenateLists(m1.heap, c1.obj, li, o.c.obj,
                                      [k \in 1..Len(ri) |-> ri[1]], dim, 1),
            res |-> "ok"]

\* Iterating the Vector or the VariableView that cast<Dataset>() returns.
castIndices(h, c) == IF c.view THEN viewIndices(c) ELSE spanIndices(h, c)

\* The Data::Events / Data::Table branch of operator+=; `this` is the concept
\* of the lhs before its cast<Dataset>(), which for a Variable is an access.
\* datasets[0].dimensions().label(0) is evaluated before the loop, whether
\* or not there is a first list and whether or not it has a dimension:
\* "undefined" when it has not.
plusEqualsEvents(m, n, isSlice, this, o) ==
  IF this.dims # o.c.dims THEN Result(m, "DimensionMismatch")
  ELSE IF m.heap[o.c.obj].etype # "Dataset" THEN Result(m, "BadCast")
  ELSE LET ri == castIndices(m.heap, o.c)
       IN  IF Len(ri) > 0 /\ ndim(m.heap[o.c.obj].data[ri[1]]) # 1
           THEN Result(m, "NestedDimension")
           ELSE LET m1 == IF isSlice THEN m ELSE access(m, n)
                    c1 == IF isSlice THEN this ELSE mutableData(m1, n)
                    li == castIndices(m1.heap, c1)
                    dim == label(m1.heap[c1.obj].data[li[1]], 1)
                IN  IF Len(li) = 0 \/ ndim(m1.heap[c1.obj].data[li[1]]) = 0
                    THEN Result(m1, "undefined")
                    ELSE [vars |-> m1.vars,
                          heap |-> concatenateLists(m1.heap, c1.obj, li,
                                                    o.c.obj, ri, dim, 1),
                          res |-> "ok"]

(***************************************************************************)
(* In-place arithmetic of Variable (variable.cpp, operator+=, -=, *=).     *)
(***************************************************************************)
\* A variant of operator+= that does not look at the units.
Variable_plusEqualsAnyUnit(m, n, o) ==
  IF m.vars[n].type \notin {"Events", "Table"}
  THEN IF containsDims(dimensions(m, n), o.c.dims)
       THEN LET m1 == access(m, n)
                r == VariableModel_apply(m1.heap, mutableData(m1, n), o.c, "+")
            IN  [vars |-> m1.vars, heap |-> r.heap, res |-> r.res]
       ELSE Result(m, "DimensionMismatch")
  ELSE plusEqualsEvents(m, n, FALSE, constData(m, n), o)

Variable_plusEquals(m, n, o) ==
  IF m.vars[n].unit # o.unit THEN Result(m, "UnitMismatch")
  ELSE IF m.vars[n].type \notin {"Events", "Table"}
  THEN IF containsDims(dimensions(m, n), o.c.dims)
       THEN LET m1 == access(m, n)
                r == VariableModel_apply(m1.heap, mutableData(m1, n), o.c, "+")
            IN  [vars |-> m1.vars, heap |-> r.heap, res |-> r.res]
       ELSE Result(m, "DimensionMismatch")
  ELSE plusEqualsEvents(m, n, FALSE, constData(m, n), o)

\* A variant of operator-= that writes through the shared object.
Variable_minusEqualsInPlace(m, n, o) ==
  IF m.vars[n].unit # o.unit THEN Result(m, "UnitMismatch")
  ELSE IF containsDims(dimensions(m, n), o.c.dims)
  THEN IF m.vars[n].type = "Events" THEN Result(m, "EventsUnsupported")
       ELSE LET r == VariableModel_apply(m.heap, mutableData(m, n), o.c, "-")
            IN  [vars |-> m.vars, heap |-> r.heap, res |-> r.res]
  ELSE Result(m, "DimensionMismatch")

\* A variant of operator-= that checks the Dimensions before the units.
Variable_minusEqualsDimsFirst(m, n, o) ==
  IF ~containsDims(dimensions(m, n), o.c.dims)
  THEN Result(m, "DimensionMismatch")
  ELSE IF m.vars[n].unit # o.unit THEN Result(m, "UnitMismatch")
  ELSE IF m.vars[n].type = "Events" THEN Result(m, "EventsUnsupported")
  ELSE LET m1 == access(m, n)
           r == VariableModel_apply(m1.heap, mutableData(m1, n), o.c, "-")
       IN  [vars |-> m1.vars, heap |-> r.heap, res |-> r.res]

Variable_minusEquals(m, n, o) ==
  IF m.vars[n].unit # o.unit THEN Result(m, "UnitMismatch")
  ELSE IF containsDims(dimensions(m, n), o.c.dims)
  THEN IF m.vars[n].type = "Events" THEN Result(m, "EventsUnsupported")
       ELSE LET m1 == access(m, n)
                r == VariableModel_apply(m1.heap, mutableData(m1, n), o.c, "-")
            IN  [vars |-> m1.vars, heap |-> r.heap, res |-> r.res]
  ELSE Result(m, "DimensionMismatch")

Variable_timesEquals(m, n, o) ==
  IF ~containsDims(dimensions(m, n), o.c.dims)
  THEN Result(m, "DimensionMismatch")
  ELSE IF m.vars[n].type = "Events" THEN Result(m, "EventsUnsupported")
  ELSE IF unitTimes(m.vars[n].unit, o.unit) = "none"
  THEN Result(m, "UnitArithmetic")
  ELSE LET m0 == [m EXCEPT !.vars[n].unit = unitTimes(m.vars[n].unit, o.unit)]
           m1 == access(m0, n)
           r == VariableModel_apply(m1.heap, mutableData(m1, n), o.c, "*")
       IN  [vars |-> m1.vars, heap |-> r.heap, res |-> r.res]

\* Variable::setSlice(slice, dim, index), the slice being the Variable `s`.
Variable_setSlice(m, n, s, dim, idx) ==
  IF m.vars[n].unit # m.vars[s].unit THEN Result(m, "UnitMismatch")
  ELSE IF m.vars[n].obj = m.vars[s].obj THEN Result(m, "ok")
  ELSE IF ~containsDims(dimensions(m, n), dimensions(m, s))
  THEN Result(m, "DimensionMismatch")
  ELSE LET m1 == Variable_data(m, n)
           r == VariableModel_copy(m1.heap, mutableData(m1, n),
                                   constData(m1, s), dim, idx, 0, 1)
       IN  [vars |-> m1.vars, heap |-> r.heap, res |-> r.res]

(***************************************************************************)
(* In-place operations of a mutable VariableSlice `t` (the mixin of        *)
(* VariableSlice<Variable>); t.c is the view, t.v the Variable sliced.     *)
(***************************************************************************)
VariableSlice_plusEquals(m, t, o) ==
  IF m.vars[t.v].unit # o.unit THEN Result(m, "UnitMismatch")
  ELSE IF m.vars[t.v].type \notin {"Events", "Table"}
  THEN IF containsDims(t.c.dims, o.c.dims)
       THEN LET r == VariableModel_apply(m.heap, t.c, o.c, "+")
            IN  [vars |-> m.vars, heap |-> r.heap, res |-> r.res]
       ELSE Result(m, "DimensionMismatch")
  ELSE plusEqualsEvents(m, t.v, TRUE, t.c, o)

VariableSlice_minusEquals(m, t, o) ==
  IF m.vars[t.v].unit # o.unit THEN Result(m, "UnitMismatch")
  ELSE IF containsDims(t.c.dims, o.c.dims)
  THEN IF m.vars[t.v].type = "Events" THEN Result(m, "EventsUnsupported")
       ELSE LET r == VariableModel_apply(m.heap, t.c, o.c, "-")
            IN  [vars |-> m.vars, heap |-> r.heap, res |-> r.res]
  ELSE Result(m, "DimensionMismatch")

\* A variant of setUnit that lets every slice change the unit.
VariableSlice_setUnitAlways(m, t, unit) ==
  Result([m EXCEPT !.vars[t.v].unit = unit], "ok")

\* VariableSlice::setUnit: a partial view may not change the unit.
VariableSlice_setUnit(m, t, unit) ==
  IF m.vars[t.v].unit # unit /\ t.c.dims # dimensions(m, t.v)
  THEN Result(m, "PartialUnitChange")
  ELSE Result([m EXCEPT !.vars[t.v].unit = unit], "ok")

VariableSlice_timesEquals(m, t, o) ==
  IF ~containsDims(t.c.dims, o.c.dims) THEN Result(m, "DimensionMismatch")
  ELSE IF m.vars[t.v].type = "Events" THEN Result(m, "EventsUnsupported")
  ELSE IF unitTimes(m.vars[t.v].unit, o.unit) = "none"
  THEN Result(m, "UnitArithmetic")
  ELSE LET u == VariableSlice_setUnit(m, t, unitTimes(m.vars[t.v].unit, o.unit))
       IN  IF u.res # "ok" THEN u
           ELSE LET r == VariableModel_apply(u.heap, t.c, o.c, "*")
                IN  [vars |-> u.vars, heap |-> r.heap, res |-> r.res]

VariableSlice_copyFrom(m, t, o) ==
  IF m.vars[t.v].type # o.type THEN Result(m, "TypeMismatch")
  ELSE IF m.vars[t.v].unit # o.unit THEN Result(m, "UnitMismatch")
  ELSE IF t.c.dims # o.c.dims THEN Result(m, "DimensionMismatch")
  ELSE LET r == VariableModel_copy(m.heap, t.c, o.c, "Invalid", 0, 0, 1)
       IN  [vars |-> m.vars, heap |-> r.heap, res |-> r.res]

(***************************************************************************)
(* Element access and metadata of Variable.                                *)
(***************************************************************************)
\* A variant of the element write that skips the copy-on-write access.
Variable_writeShared(m, n, tag, i, x) ==
  LET o == m.vars[n].obj
  IN  IF elementType(tag) # m.heap[o].etype THEN Result(m, "BadCast")
      ELSE IF outside(m.heap, o, i) THEN Result(m, "undefined")
      ELSE [vars |-> m.vars, heap |-> [m.heap EXCEPT ![o].data[i] = x],
            res |-> "ok"]

\* get<Tag>()[i] = x on a non-const Variable: cast<T>() calls access() and
\* then checks the element type.
Variable_write(m, n, tag, i, x) ==
  LET m1 == access(m, n)
      o == m1.vars[n].obj
  IN  IF elementType(tag) # m1.heap[o].etype THEN Result(m1, "BadCast")
      ELSE IF outside(m1.heap, o, i) THEN Result(m1, "undefined")
      ELSE [vars |-> m1.vars, heap |-> [m1.heap EXCEPT ![o].data[i] = x],
            res |-> "ok"]

Variable_setUnit(m, n, unit) == Result([m EXCEPT !.vars[n].unit = unit], "ok")

Variable_setName(m, n, name) ==
  IF isCoord(m.vars[n].type) THEN Result(m, "CoordinateName")
  ELSE Result([m EXCEPT !.vars[n].name = name], "ok")

\* Copy construction and copy assignment: the cow_ptr is shared.
Variable_assign(m, n, from) == Result([m EXCEPT !.vars[n] = m.vars[from]], "ok")

(***************************************************************************)
(* Equality.                                                               *)
(***************************************************************************)
\* std::equal over two ranges: same length and equal element by element.
equal(h, etype, lo, li, ro, ri) ==
  /\ Len(li) = Len(ri)
  /\ \A k \in 1..Len(li) :
       elementEquals(etype, h[lo].data[li[k]], h[ro].data[ri[k]])

VariableModel_equals(h, this, other) ==
  IF this.dims # other.dims THEN FALSE
  ELSE equal(h, h[this.obj].etype,
             this.obj, lhsIndices(h, this),
             other.obj, rhsIndices(h, this, other))

\* Variable::operator== and VariableSlice::operator== on operands x and y;
\* only Variable == Variable has the shortcut on the shared object.
Variable_equals(m, x, y) ==
  IF x.name # y.name THEN FALSE
  ELSE IF x.unit # y.unit THEN FALSE
  ELSE IF ~x.slice /\ ~y.slice /\ x.c.obj = y.c.obj THEN TRUE
  ELSE IF x.type # y.type THEN FALSE
  ELSE IF x.c.dims # y.c.dims THEN FALSE
  ELSE VariableModel_equals(m.heap, x.c, y.c)

Variable_notEquals(m, x, y) == ~Variable_equals(m, x, y)

(***************************************************************************)
(* Construction.  makeVariable<Tag>(dims, data) checks the element count   *)
(* against the volume; the unit is the default unit of the tag.            *)
(***************************************************************************)
\* A variant of the constructor without the check of the element count.
VariableModel_newUnchecked(etype, dims, data) ==
  [res |-> "ok", obj |-> [etype |-> etype, dims |-> dims, data |-> data]]

VariableModel_new(etype, dims, data) ==
  IF volume(dims) # Len(data)
  THEN [res |-> "SizeMismatch", obj |-> Free]
  ELSE [res |-> "ok", obj |-> [etype |-> etype, dims |-> dims, data |-> data]]

makeVariable(m, n, tag, dims, data) ==
  LET model == VariableModel_new(elementType(tag), dims, data)
      o == freshObj(m)
  IN  IF model.res # "ok" THEN Result(m, model.res)
      ELSE [vars |-> [m.vars EXCEPT ![n] = [type |-> tag, name |-> "",
                                            unit |-> defaultUnit(tag),
                                            obj |-> o]],
            heap |-> [m.heap EXCEPT ![o] = model.obj],
            res |-> "ok"]

\* Element k of the data a test fills a Variable with: k * base, an event
\* list of k events, or the temperature k with the default delta 0.
element(tag, k, base) ==
  CASE elementType(tag) = "Dataset" -> D1("Event", k)
    [] elementType(tag) = "ValueWithDelta" -> <<k * base, 0>>
    [] OTHER -> k * base

fill(tag, dims, base) == [k \in 1..volume(dims) |-> element(tag, k, base)]

Extents == 1..MaxExtent

\* The Dimensions over X and Y of rank 0, 1 and 2, in both orders.
Shapes ==
  {<<>>}
    \cup {D1(d, n) : d \in {"X", "Y"}, n \in Extents}
    \cup {D2("Y", n, "X", k) : n \in Extents, k \in Extents}
    \cup {D2("X", n, "Y", k) : n \in Extents, k \in Extents}

Empty ==
  [vars |-> [n \in Names |-> NoVariable], heap |-> [o \in ObjIds |-> Free]]

\* A description of how a Variable was made: tag, Dimensions, unit set later
\* by setUnit, name set later by setName.
Recipe(tags, shapes, units, names) ==
  [tag : tags, dims : shapes, unit : units, name : names]

make(m, n, r, base) ==
  LET m1 == makeVariable(m, n, r.tag, r.dims, fill(r.tag, r.dims, base))
      m2 == Variable_setUnit(m1, n, r.unit)
  IN  IF isCoord(r.tag) THEN m2 ELSE Variable_setName(m2, n, r.name)

\* `a` made from recipe ra; `b` made from rb, or a copy of `a` when shared.
Configuration(ra, rb, shared) ==
  LET m1 == make(Empty, "a", ra, 1)
  IN  IF shared THEN Variable_assign(m1, "b", "a") ELSE make(m1, "b", rb, 10)

NoOperand == [v |-> "", slice |-> FALSE, const |-> TRUE, restr |-> <<>>]

Nothing ==
  [op |-> "none", lhs |-> NoOperand, rhs |-> NoOperand, dest |-> "",
   dim |-> "Invalid", idx |-> 0, arg |-> 0, shape |-> <<>>, unit |-> "none",
   xold |-> <<>>, xnew |-> <<>>, res |-> "ok"]

\* The state after constructing the configuration c.
Start(c) ==
  /\ vars = c.vars
  /\ heap = c.heap
  /\ pre = [vars |-> c.vars, heap |-> c.heap]
  /\ last = Nothing
  /\ steps = 0
  /\ subject = <<>>

Machine == [vars |-> vars, heap |-> heap]

\* The end of a call: its outcome becomes the state, temporaries are
\* destroyed, the call and the state before it are remembered.
Return(call, r) ==
  LET m == collect([vars |-> [n \in Names |-> r.vars[n]], heap |-> r.heap])
  IN  /\ vars' = m.vars
      /\ heap' = m.heap
      /\ pre' = Machine
      /\ last' = [call EXCEPT !.res = r.res]
      /\ steps' = steps + 1
      /\ subject' = subject

Call(op, lhs, rhs) == [Nothing EXCEPT !.op = op, !.lhs = lhs, !.rhs = rhs]

(***************************************************************************)
(* The operands a caller can form from the Variable n: n itself, and its   *)
(* const or mutable point and range slices along one of its Dims.          *)
(***************************************************************************)
PointSlices(m, n) ==
  {Slice(n, c, <<R(dimensions(m, n)[i].label, k, -1)>>) :
     c \in BOOLEAN,
     i \in 1..Len(dimensions(m, n)), k \in 0..(MaxExtent - 1)}

RangeSlices(m, n) ==
  {Slice(n, c, <<R(dimensions(m, n)[i].label, k, e)>>) :
     c \in BOOLEAN, i \in 1..Len(dimensions(m, n)),
     k \in 0..(MaxExtent - 1), e \in 1..MaxExtent}

\* Slices within the extents: 0 <= begin < end <= size, or 0 <= index < size.
valid(m, o) ==
  \A j \in 1..Len(o.restr) :
    LET r == o.restr[j]
        n == size(dimensions(m, o.v), r.dim)
    IN  /\ r.begin < n
        /\ r.end = -1 \/ (r.begin < r.end /\ r.end <= n)

Operands(m) ==
  {Var(n) : n \in Names}
    \cup {o \in UNION {PointSlices(m, n) \cup RangeSlices(m, n) : n \in Names} :
            valid(m, o)}

(***************************************************************************)
(* Actions: one call each.  n is the Variable the call is made on, o the   *)
(* operand passed to it.                                                   *)
(***************************************************************************)
PlusEquals(n, o) ==
  LET x == operand(Machine, o)
  IN  Return(Call("+=", Var(n), o), Variable_plusEquals(x.m, n, x))

MinusEquals(n, o) ==
  LET x == operand(Machine, o)
  IN  Return(Call("-=", Var(n), o), Variable_minusEquals(x.m, n, x))

TimesEquals(n, o) ==
  LET x == operand(Machine, o)
  IN  Return(Call("*=", Var(n), o), Variable_timesEquals(x.m, n, x))

\* An index a caller may pass for Dim `dim` of n: inside the extent.
InRange(n, dim, idx) ==
  contains(dimensions(Machine, n), dim) => idx < size(dimensions(Machine, n), dim)

SetSlice(n, s, dim, idx) ==
  Return([Call("setSlice", Var(n), Var(s)) EXCEPT !.dim = dim, !.idx = idx],
         Variable_setSlice(Machine, n, s, dim, idx))

\* get<Tag>()[i - 1] = -1, the position i being inside the buffer.
Write(n, tag, i) ==
  /\ i <= Len(values(Machine, n))
  /\ Return([Call("write", Var(n), NoOperand) EXCEPT !.idx = i],
            Variable_write(Machine, n, tag, i, -1))

\* The machine with the local Variables of a function body, not yet set.
withLocals(m) ==
  [vars |-> [n \in Names \cup Locals |->
               IF n \in Names THEN m.vars[n] ELSE NoVariable],
   heap |-> m.heap]

\* n.setSlice(s, dim, idx) with s a Variable made for the call.
SetSliceFrom(n, shape, dim, idx) ==
  LET r == [tag |-> "Value", dims |-> shape, unit |-> "Dimensionless",
            name |-> ""]
      m == make(withLocals(Machine), "tmp", r, 100)
  IN  Return([Call("setSlice", Var(n), Var("tmp")) EXCEPT
                 !.dim = dim, !.idx = idx, !.shape = shape],
             Variable_setSlice(m, n, "tmp", dim, idx))

(***************************************************************************)
(* Spec: one in-place call on a Variable in any configuration of two:      *)
(* every shape of rank <= 2, equal and different units, names and element  *)
(* types, `b` independent of `a` or a copy sharing its storage.            *)
(***************************************************************************)
Square == D2("Y", MaxExtent, "X", MaxExtent)

Line == D1("X", MaxExtent)

RecipesA ==
  Recipe({"Value"}, Shapes, {"Dimensionless"}, {""})
    \cup Recipe({"Value"}, {Square, Line}, {"Length"}, {""})
    \cup Recipe({"String"}, {Line}, {"Dimensionless", "Length"}, {""})

RecipesB ==
  Recipe({"Value"}, Shapes, {"Dimensionless"}, {""})
    \cup Recipe({"Value"}, {Line}, {"Length", "Area"}, {"n"})
    \cup Recipe({"X", "Int"}, {Line}, {"Length"}, {""})
    \cup Recipe({"String"}, {Line}, {"Dimensionless"}, {""})

Init ==
  \E ra \in RecipesA, rb \in RecipesB, shared \in BOOLEAN :
    Start(Configuration(ra, rb, shared))

Fresh == steps = 0

Add == Fresh /\ \E n \in Names, o \in Operands(Machine) : PlusEquals(n, o)

Subtract == Fresh /\ \E n \in Names, o \in Operands(Machine) : MinusEquals(n, o)

Multiply == Fresh /\ \E n \in Names, o \in Operands(Machine) : TimesEquals(n, o)

Insert ==
  /\ Fresh
  /\ \E n \in Names, s \in Names, d \in {"X", "Y"}, i \in 0..(MaxExtent - 1) :
       InRange(n, d, i) /\ SetSlice(n, s, d, i)

InsertNew ==
  /\ Fresh
  /\ \E n \in Names, sh \in Shapes, d \in {"X", "Y"}, i \in 0..(MaxExtent - 1) :
       InRange(n, d, i) /\ SetSliceFrom(n, sh, d, i)

Assign ==
  Fresh /\ \E n \in Names, tag \in {"Value", "Int"}, i \in 1..MaxExtent :
             Write(n, tag, i)

Next == Add \/ Subtract \/ Multiply \/ Insert \/ InsertNew \/ Assign

Spec == Init /\ [][Next]_state

(***************************************************************************)
(* The meaning of multi-indices, stated without views: the element of a    *)
(* Variable at a multi-index (a coordinate per Dim), and the element of    *)
(* an operand at a multi-index of the operation's lhs.                     *)
(***************************************************************************)
Labels == {"X", "Y", "Z", "Event", "Invalid"}

\* The multi-index of the k-th element (0-based) in row-major order.
multiIndex(dims, k) ==
  [d \in Labels |->
     IF contains(dims, d)
     THEN (k \div volumeFrom(dims, index(dims, d) + 1)) % size(dims, d)
     ELSE 0]

RECURSIVE flatFrom(_, _, _)
flatFrom(dims, ix, i) ==
  IF i > Len(dims) THEN 0
  ELSE ix[dims[i].label] * volumeFrom(dims, i + 1) + flatFrom(dims, ix, i + 1)

\* The element of Variable n at multi-index ix.
at(m, n, ix) == values(m, n)[1 + flatFrom(dimensions(m, n), ix, 1)]

\* A multi-index of a slice as a multi-index of what was sliced.
RECURSIVE lift(_, _, _)
lift(rs, ix, i) ==
  IF i = 0 THEN ix
  ELSE lift(rs,
            [ix EXCEPT ![rs[i].dim] =
               IF rs[i].end = -1 THEN rs[i].begin ELSE rs[i].begin + @],
            i - 1)

\* The element of operand o that belongs to multi-index ix of the lhs.
operandAt(m, o, ix) == at(m, o.v, lift(o.restr, ix, Len(o.restr)))

\* The Dimensions of operand o.
RECURSIVE restrictDims(_, _, _)
restrictDims(dims, rs, i) ==
  IF i > Len(rs) THEN dims
  ELSE restrictDims(IF rs[i].end = -1 THEN erase(dims, rs[i].dim)
                    ELSE resize(dims, rs[i].dim, rs[i].end - rs[i].begin),
                    rs, i + 1)

operandDims(m, o) == restrictDims(dimensions(m, o.v), o.restr, 1)

Arithmetic == {"+=", "-=", "*="}

opOf(call) ==
  CASE call = "+=" -> "+" [] call = "-=" -> "-" [] call = "*=" -> "*"

\* The rhs of the last call is a view into the storage of its lhs.
SelfView == last.rhs.slice /\ last.rhs.v = last.lhs.v

Failed == last.res \notin {"ok", "undefined"}

\* Unit, name, Dimensions and elements of Variable n are as before the call.
Untouched(n) ==
  /\ vars[n].unit = pre.vars[n].unit
  /\ vars[n].name = pre.vars[n].name
  /\ vars[n].type = pre.vars[n].type
  /\ dimensions(Machine, n) = dimensions(pre, n)
  /\ values(Machine, n) = values(pre, n)

(***************************************************************************)
(* C4: an in-place operation that fails with an error leaves the unit,     *)
(* the name, the Dimensions and every element of its target as they were.  *)
(***************************************************************************)
C4_NoPartialMutation ==
  (last.op \in Arithmetic \cup {"setSlice", "copyFrom"} /\ Failed) =>
    Untouched(last.lhs.v)

(***************************************************************************)
(* C5: `var op= var(Dim, i)` gives what `var op= c(Dim, i)` gives for an   *)
(* independent copy c of var taken before the call: every slab of var      *)
(* along Dim is combined with the values slab i had before the call.       *)
(***************************************************************************)
C5_SelfAliasMaterialised ==
  (/\ last.op \in Arithmetic /\ last.res = "ok" /\ SelfView
   /\ Len(last.rhs.restr) = 1 /\ last.rhs.restr[1].end = -1) =>
    LET n == last.lhs.v
        dims == dimensions(pre, n)
    IN  \A k \in 1..volume(dims) :
          values(Machine, n)[k] =
            arithmetic(opOf(last.op), values(pre, n)[k],
                       operandAt(pre, last.rhs, multiIndex(dims, k - 1)))

\* The rhs of the last call has a Dim the lhs lacks or has with another extent.
ShapeMismatch ==
  ~containsDims(dimensions(pre, last.lhs.v), operandDims(pre, last.rhs))

UnitsDiffer == pre.vars[last.lhs.v].unit # pre.vars[last.rhs.v].unit

(***************************************************************************)
(* C9, as stated: arithmetic with a rhs whose Dimensions the lhs does not  *)
(* contain fails with a dimension-mismatch error, and arithmetic never     *)
(* changes the Dimensions of the lhs.                                      *)
(***************************************************************************)
C9_DimensionMismatchAlways ==
  last.op \in Arithmetic =>
    /\ dimensions(Machine, last.lhs.v) = dimensions(pre, last.lhs.v)
    /\ ShapeMismatch => last.res = "DimensionMismatch"

(***************************************************************************)
(* C9, amended: such a call always fails and never changes the Dimensions  *)
(* of the lhs; the error is the dimension mismatch for `*=` and for equal  *)
(* units, and the unit error for `+=` and `-=` with different units.       *)
(***************************************************************************)
C9_ShapePrecondition ==
  last.op \in Arithmetic =>
    /\ dimensions(Machine, last.lhs.v) = dimensions(pre, last.lhs.v)
    /\ ShapeMismatch =>
         last.res = IF last.op # "*=" /\ UnitsDiffer THEN "UnitMismatch"
                    ELSE "DimensionMismatch"

\* var -= var(X, 0, 1) on a Variable over (X, Y) with extent X > 1.
C9_Witness ==
  /\ last.op = "-=" /\ last.res = "DimensionMismatch"
  /\ last.rhs = Slice(last.lhs.v, TRUE, <<R("X", 0, 1)>>)
  /\ dimensions(pre, last.lhs.v) = D2("X", MaxExtent, "Y", MaxExtent)

(***************************************************************************)
(* C10: `+=` and `-=` with different units fail with the unit error,       *)
(* whatever the names and tags, and never change the unit; a successful    *)
(* `*=` sets the unit of the lhs to lhs.unit * rhs.unit.                   *)
(***************************************************************************)
C10_UnitRule ==
  /\ last.op \in {"+=", "-="} =>
       /\ UnitsDiffer => last.res = "UnitMismatch"
       /\ last.res = "ok" => ~UnitsDiffer
       /\ vars[last.lhs.v].unit = pre.vars[last.lhs.v].unit
  /\ (last.op = "*=" /\ last.res = "ok") =>
       vars[last.lhs.v].unit =
         unitTimes(pre.vars[last.lhs.v].unit, pre.vars[last.rhs.v].unit)

\* Length *= Length gave Area.
C10_Witness ==
  /\ last.op = "*=" /\ last.res = "ok"
  /\ pre.vars[last.lhs.v].unit = "Length"
  /\ pre.vars[last.rhs.v].unit = "Length"
  /\ vars[last.lhs.v].unit = "Area"

\* Before the last call, b was a copy of a that shared a's storage.
Shared == pre.vars["a"].obj = pre.vars["b"].obj

Mutating == Arithmetic \cup {"setSlice", "write"}

\* setSlice from a Variable that shares the storage of the target: nothing
\* is copied and nothing is accessed.
SameObject ==
  /\ last.op = "setSlice"
  /\ last.rhs.v \in Names
  /\ pre.vars[last.rhs.v].obj = pre.vars[last.lhs.v].obj

(***************************************************************************)
(* C1: when b is a copy of a sharing its storage, a mutating access        *)
(* through b (element write, +=, -=, *=, setSlice) leaves every element    *)
(* read through a as it was, a's buffer stays the buffer it was, and a     *)
(* call through b that mutated gave b a buffer of its own.                 *)
(***************************************************************************)
C1_CopyOnWrite ==
  (last.op \in Mutating /\ Shared /\ last.lhs.v = "b") =>
    /\ Untouched("a")
    /\ heap[vars["a"].obj] = pre.heap[pre.vars["a"].obj]
    /\ heap[vars["a"].obj] # Free
    /\ (last.res = "ok" /\ ~SameObject) => vars["b"].obj # vars["a"].obj
    /\ last.op = "write" => vars["b"].obj # vars["a"].obj

\* b wrote an element while sharing: b sees it, a does not.
C1_Witness ==
  /\ last.op = "write" /\ last.res = "ok" /\ Shared /\ last.lhs.v = "b"
  /\ values(Machine, "b")[last.idx] = -1
  /\ values(Machine, "a")[last.idx] # -1
  /\ values(Machine, "a") = values(pre, "a")

(***************************************************************************)
(* SpecAlias: var and a copy of it that shares its storage; var -= a point *)
(* slice of the copy, taken as const or as mutable, again and again.       *)
(***************************************************************************)
RecipesAlias == Recipe({"Value"}, Shapes \ {<<>>}, {"Dimensionless"}, {""})

InitAlias == \E ra \in RecipesAlias : Start(Configuration(ra, ra, TRUE))

More == steps < MaxSteps

SubtractSlab ==
  /\ More
  /\ \E o \in PointSlices(Machine, "b") :
       valid(Machine, o) /\ MinusEquals("a", o)

NextAlias == SubtractSlab

SpecAlias == InitAlias /\ [][NextAlias]_state

\* The contents Variable n was made with.
Original(n) == fill(vars[n].type, dimensions(Machine, n), 1)

(***************************************************************************)
(* C6: with copy a copy of var that shared var's storage, every            *)
(* `var -= copy(Dim, i)` succeeds and subtracts from every slab of var     *)
(* the original slab i, and copy keeps its original contents, whether      *)
(* copy is sliced as const or as mutable.                                  *)
(***************************************************************************)
C6_ViewOfSharedCopy ==
  last.op = "-=" =>
    /\ last.res = "ok"
    /\ values(pre, "b") = Original("b")
    /\ values(Machine, "b") = Original("b")
    /\ dimensions(Machine, "a") = dimensions(pre, "a")
    /\ \A k \in 1..volume(dimensions(pre, "a")) :
         values(Machine, "a")[k] =
           values(pre, "a")[k]
             - operandAt(pre, last.rhs, multiIndex(dimensions(pre, "a"), k - 1))

\* [[1,2],[3,4]] after var -= copy(Y,0) and var -= copy(Y,1), copy const.
C6_Witness ==
  /\ steps = 2 /\ last.op = "-=" /\ last.res = "ok"
  /\ last.rhs = Slice("b", TRUE, <<R("Y", 1, -1)>>)
  /\ dimensions(Machine, "a") = D2("Y", 2, "X", 2)
  /\ values(Machine, "a") = <<-3, -4, -1, -2>>
  /\ values(Machine, "b") = <<1, 2, 3, 4>>

(***************************************************************************)
(* SpecEvents: event lists.  d = b holds the event lists, a is a copy of   *)
(* it or another Variable of event lists; +=, -= and *= of b to a.         *)
(***************************************************************************)
RecipesEvents ==
  Recipe({"Events"}, {<<>>} \cup {D1(d, n) : d \in {"X", "Y"}, n \in Extents},
         {"Dimensionless"}, {""})

InitEvents ==
  \E ra \in RecipesEvents, rb \in RecipesEvents, shared \in BOOLEAN :
    Start(Configuration(ra, rb, shared))

AddEvents == More /\ PlusEquals("a", Var("b"))

SubtractEvents == More /\ MinusEquals("a", Var("b"))

MultiplyEvents == More /\ TimesEquals("a", Var("b"))

NextEvents == AddEvents \/ SubtractEvents \/ MultiplyEvents

SpecEvents == InitEvents /\ [][NextEvents]_state

\* Number of events of the i-th event list of Variable n.
len(m, n, i) == size(values(m, n)[i], "Event")

(***************************************************************************)
(* C7: for event-list Variables of equal Dimensions `a += b` succeeds and  *)
(* makes every list a[i] as long as a[i] and b[i] were together, so that   *)
(* after k additions of d to a copy of d list i has (k+1) * len(d[i])      *)
(* events; `-=` and `*=` fail and leave a as it was.                       *)
(***************************************************************************)
C7_EventLists ==
  /\ (last.op = "+=" /\ dimensions(pre, "a") = dimensions(pre, "b")) =>
       /\ last.res = "ok"
       /\ dimensions(Machine, "a") = dimensions(pre, "a")
       /\ \A i \in 1..volume(dimensions(pre, "a")) :
            /\ len(Machine, "a", i) = len(pre, "a", i) + len(pre, "b", i)
            /\ label(values(Machine, "a")[i], 1) = "Event"
            /\ \E k \in 0..steps :
                 len(Machine, "a", i) = (k + 1) * len(Machine, "b", i)
  /\ last.op \in {"-=", "*="} => (Failed /\ Untouched("a"))
  /\ Untouched("b")

\* d added twice to a copy of d: the second list has 3 * 2 events.
C7_Witness ==
  /\ steps = 2 /\ last.op = "+=" /\ last.res = "ok"
  /\ dimensions(Machine, "a") = D1("X", 2)
  /\ len(Machine, "b", 2) = 2
  /\ len(Machine, "a", 2) = 6

(***************************************************************************)
(* SpecEq: equality of two Variables: equal or different name, unit, tag,  *)
(* Dimensions and contents, b sharing the storage of a or not.             *)
(***************************************************************************)
RecipesEq ==
  Recipe({"Value"}, {<<>>, Line, D1("Y", MaxExtent)},
         {"Dimensionless", "Length"}, {"", "n"})
    \cup Recipe({"X"}, {Line}, {"Length"}, {""})
    \cup Recipe({"Int", "FuzzyTemperature"}, {Line}, {"Dimensionless"}, {""})

InitEq ==
  \E ra \in RecipesEq, rb \in RecipesEq, base \in {1, 10}, shared \in BOOLEAN :
    LET m == make(Empty, "a", ra, 1)
    IN  Start(IF shared THEN Variable_assign(m, "b", "a")
              ELSE make(m, "b", rb, base))

truth(b) == IF b THEN "true" ELSE "false"

Equals(n, o) ==
  LET x == operand(Machine, Var(n))
      y == operand(Machine, Var(o))
  IN  Return(Call("==", Var(n), Var(o)),
             Result(Machine, truth(Variable_equals(Machine, x, y))))

NotEquals(n, o) ==
  LET x == operand(Machine, Var(n))
      y == operand(Machine, Var(o))
  IN  Return(Call("!=", Var(n), Var(o)),
             Result(Machine, truth(Variable_notEquals(Machine, x, y))))

Compare == Fresh /\ \E n \in Names, o \in Names : Equals(n, o)

CompareNot == Fresh /\ \E n \in Names, o \in Names : NotEquals(n, o)

NextEq == Compare \/ CompareNot

SpecEq == InitEq /\ [][NextEq]_state

\* Variables x and y hold element-wise equal data.
sameElements(m, x, y) ==
  /\ m.heap[m.vars[x].obj].etype = m.heap[m.vars[y].obj].etype
  /\ Len(values(m, x)) = Len(values(m, y))
  /\ \A k \in 1..Len(values(m, x)) :
       elementEquals(m.heap[m.vars[x].obj].etype,
                     values(m, x)[k], values(m, y)[k])

\* Same name, unit, tag, Dimensions and element-wise equal data.
sameVariable(m, x, y) ==
  /\ m.vars[x].name = m.vars[y].name
  /\ m.vars[x].unit = m.vars[y].unit
  /\ m.vars[x].type = m.vars[y].type
  /\ dimensions(m, x) = dimensions(m, y)
  /\ sameElements(m, x, y)

eq(m, x, y) == Variable_equals(m, operand(m, Var(x)), operand(m, Var(y)))

(***************************************************************************)
(* C8: `a == b` is true if and only if a and b have the same name, unit,   *)
(* tag, Dimensions and element-wise equal data; == is symmetric and != is  *)
(* its negation.                                                           *)
(***************************************************************************)
C8_EqualityIff ==
  /\ last.op = "==" =>
       (last.res = "true" <=> sameVariable(pre, last.lhs.v, last.rhs.v))
  /\ last.op = "!=" =>
       (last.res = "true" <=> ~eq(pre, last.lhs.v, last.rhs.v))
  /\ eq(Machine, "a", "b") = eq(Machine, "b", "a")

(***************************************************************************)
(* Operations that make a new Variable.  Each leaves its result in the     *)
(* local Variable "tmp" of the machine it returns.                         *)
(***************************************************************************)
\* T(): the value-initialised element of a resized buffer.
defaultElement(etype) ==
  CASE etype = "Dataset" -> <<>>
    [] etype = "ValueWithDelta" -> <<0, 0>>
    [] OTHER -> 0

CloneHelper_getModel(etype, dims) ==
  [k \in 1..volume(dims) |-> defaultElement(etype)]

\* VariableModel::clone(dims): a model of the same element type for dims.
VariableModel_clone(h, o, dims) ==
  VariableModel_new(h[o].etype, dims, CloneHelper_getModel(h[o].etype, dims))

Variable_setDimensions(m, n, dims) ==
  IF dims = dimensions(m, n) THEN Result(m, "ok")
  ELSE LET old == m.vars[n].obj
           c == VariableModel_clone(m.heap, old, dims)
           o == IF refcount(m, old) > 1 THEN freshObj(m) ELSE old
       IN  IF c.res # "ok" THEN Result(m, c.res)
           ELSE [vars |-> [m.vars EXCEPT ![n].obj = o],
                 heap |-> [m.heap EXCEPT ![o] = c.obj],
                 res |-> "ok"]

\* out.data().copy(var.data(), dim, offset, begin, end)
copyInto(m, out, var, dim, offs, begin, end) ==
  LET m1 == Variable_data(m, out)
      r == VariableModel_copy(m1.heap, mutableData(m1, out), constData(m1, var),
                              dim, offs, begin, end)
  IN  [vars |-> m1.vars, heap |-> r.heap, res |-> r.res]

\* slice(var, dim, index)
slicePoint(m, var, dim, idx) ==
  LET m1 == Variable_assign(m, "tmp", var)
  IN  IF ~contains(dimensions(m1, "tmp"), dim)
      THEN Result(m, "DimensionNotFound")
      ELSE LET m2 == Variable_setDimensions(
                       m1, "tmp", erase(dimensions(m1, "tmp"), dim))
           IN  copyInto(m2, "tmp", var, dim, 0, idx, idx + 1)

\* slice(var, dim, begin, end)
sliceRange(m, var, dim, begin, end) ==
  LET m1 == Variable_assign(m, "tmp", var)
  IN  IF ~contains(dimensions(m1, "tmp"), dim)
      THEN Result(m, "DimensionNotFound")
      ELSE LET dims == resize(dimensions(m1, "tmp"), dim, end - begin)
           IN  IF dims = dimensions(m1, "tmp") THEN m1
               ELSE copyInto(Variable_setDimensions(m1, "tmp", dims),
                             "tmp", var, dim, 0, begin, end)

\* The j-th Variable of split(var, dim, indices).
split(m, var, dim, indices, j) ==
  IF Len(indices) = 0 THEN Variable_assign(m, "tmp", var)
  ELSE IF j = 1 THEN sliceRange(m, var, dim, 0, indices[1])
  ELSE IF j <= Len(indices)
  THEN sliceRange(m, var, dim, indices[j - 1], indices[j])
  ELSE IF ~contains(dimensions(m, var), dim)
  THEN Result(m, "DimensionNotFound")
  ELSE sliceRange(m, var, dim, indices[Len(indices)],
                  size(dimensions(m, var), dim))

concatenate(m, a1, a2, dim) ==
  LET dims1 == dimensions(m, a1)
      dims2 == dimensions(m, a2)
      size1 == ndim(dims1) - (IF contains(dims1, dim) THEN 1 ELSE 0)
      size2 == ndim(dims2) - (IF contains(dims2, dim) THEN 1 ELSE 0)
      extent1 == IF contains(dims1, dim) THEN size(dims1, dim) ELSE 1
      extent2 == IF contains(dims2, dim) THEN size(dims2, dim) ELSE 1
      dims == IF contains(dims1, dim) THEN resize(dims1, dim, extent1 + extent2)
              ELSE add(dims1, dim, extent1 + extent2)
  IN  IF m.vars[a1].type # m.vars[a2].type THEN Result(m, "TypeMismatch")
      ELSE IF m.vars[a1].unit # m.vars[a2].unit THEN Result(m, "UnitMismatch")
      ELSE IF m.vars[a1].name # m.vars[a2].name THEN Result(m, "NameMismatch")
      ELSE IF \E i \in 1..Len(dims1) :
                /\ dims1[i].label # dim
                /\ \/ ~contains(dims2, dims1[i].label)
                   \/ size(dims2, dims1[i].label) # dims1[i].size
      THEN Result(m, "DimensionMismatch")
      ELSE IF size1 # size2 THEN Result(m, "DimensionMismatch")
      ELSE LET m1 == Variable_assign(m, "tmp", a1)
               m2 == Variable_setDimensions(m1, "tmp", dims)
               m3 == copyInto(m2, "tmp", a1, dim, 0, 0, extent1)
           IN  IF m3.res # "ok" THEN m3
               ELSE copyInto(m3, "tmp", a2, dim, extent1, 0, extent2)

\* Variable::operator=(slice) on Variable n, the slice being operand o.
Variable_assignSlice(m, n, o) ==
  LET m1 == [m EXCEPT !.vars[n].type = o.type, !.vars[n].name = o.name,
                      !.vars[n].unit = o.unit]
      m2 == Variable_setDimensions(m1, n, o.c.dims)
      m3 == Variable_data(m2, n)
      r == VariableModel_copy(m3.heap, mutableData(m3, n), o.c,
                              "Invalid", 0, 0, 1)
  IN  IF m2.res # "ok" THEN m2
      \* the slice views a buffer that setDimensions has just released
      ELSE IF /\ o.c.obj = m.vars[n].obj
              /\ refcount(m, o.c.obj) = 1
              /\ o.c.dims # dimensions(m, n)
      THEN Result(m, "undefined")
      ELSE [vars |-> m3.vars, heap |-> r.heap, res |-> r.res]

\* Variable(slice): a copy of the sliced Variable, then assigned the slice.
Variable_fromSlice(m, o) ==
  Variable_assignSlice(Variable_assign(m, "tmp", o.v), "tmp", o)

RECURSIVE permuteLoop(_, _, _, _, _)
permuteLoop(m, var, dim, indices, i) ==
  IF i > Len(indices) THEN m
  ELSE LET m1 == copyInto(m, "tmp", var, dim, i - 1,
                          indices[i], indices[i] + 1)
       IN  IF m1.res # "ok" THEN m1
           ELSE permuteLoop(m1, var, dim, indices, i + 1)

permute(m, var, dim, indices) ==
  permuteLoop(Variable_assign(m, "tmp", var), var, dim, indices, 1)

\* The number of copies the loop of filter has made before position iIn.
RECURSIVE kept(_, _)
kept(mask, iIn) ==
  IF iIn = 0 THEN 0
  ELSE kept(mask, iIn - 1) + (IF mask[iIn] # 0 THEN 1 ELSE 0)

RECURSIVE filterLoop(_, _, _, _, _)
filterLoop(m, var, dim, mask, iIn) ==
  IF iIn > Len(mask) THEN m
  ELSE IF mask[iIn] = 0 THEN filterLoop(m, var, dim, mask, iIn + 1)
  ELSE LET m1 == copyInto(m, "tmp", var, dim, kept(mask, iIn - 1),
                          iIn - 1, iIn)
       IN  IF m1.res # "ok" THEN m1
           ELSE filterLoop(m1, var, dim, mask, iIn + 1)

\* filter(var, filter), the Variable f being the filter.
filter(m, var, f) ==
  IF ndim(dimensions(m, f)) # 1 THEN Result(m, "FilterNotOneDimensional")
  ELSE IF m.heap[m.vars[f].obj].etype # elementType("Mask")
  THEN Result(m, "BadCast")
  ELSE LET dim == label(dimensions(m, f), 1)
           mask == values(m, f)
           removed == Len(mask) - kept(mask, Len(mask))
           m1 == Variable_assign(m, "tmp", var)
       IN  IF removed = 0 THEN m1
           ELSE IF ~contains(dimensions(m, var), dim)
           THEN Result(m, "DimensionNotFound")
           ELSE IF size(dimensions(m, var), dim) < removed
           THEN Result(m, "undefined")
           ELSE filterLoop(
                  Variable_setDimensions(
                    m1, "tmp",
                    resize(dimensions(m, var), dim,
                           size(dimensions(m, var), dim) - removed)),
                  var, dim, mask, 1)

\* The while loop of RebinHelper::rebinInner for row c, from (iold, inew).
\* p carries the heap, the old and new objects, xold, xnew and the sizes.
RECURSIVE rebinInnerRow(_, _, _, _, _)
rebinInnerRow(h, p, c, iold, inew) ==
  IF ~(iold < p.oldSize /\ inew < p.newSize) THEN [heap |-> h, res |-> "ok"]
  ELSE IF iold + 2 > Len(p.xold) \/ inew + 2 > Len(p.xnew)
  THEN [heap |-> h, res |-> "undefined"]
  ELSE
    LET xo_low == p.xold[iold + 1]
        xo_high == p.xold[iold + 2]
        xn_low == p.xnew[inew + 1]
        xn_high == p.xnew[inew + 2]
        delta == (IF xo_high < xn_high THEN xo_high ELSE xn_high)
                   - (IF xo_low > xn_low THEN xo_low ELSE xn_low)
        owidth == xo_high - xo_low
        to == c * p.newSize + inew + 1
        from == c * p.oldSize + iold + 1
    IN  IF xn_high <= xo_low THEN rebinInnerRow(h, p, c, iold, inew + 1)
        ELSE IF xo_high <= xn_low THEN rebinInnerRow(h, p, c, iold + 1, inew)
        ELSE IF outside(h, p.new, to) \/ outside(h, p.old, from) \/ owidth = 0
        THEN [heap |-> h, res |-> "undefined"]
        ELSE LET h1 == [h EXCEPT ![p.new].data[to] =
                          @ + (h[p.old].data[from] * delta) \div owidth]
             IN  IF xn_high > xo_high
                 THEN rebinInnerRow(h1, p, c, iold + 1, inew)
                 ELSE rebinInnerRow(h1, p, c, iold, inew + 1)

RECURSIVE rebinInnerRows(_, _, _, _)
rebinInnerRows(h, p, c, count) ==
  IF c >= count THEN [heap |-> h, res |-> "ok"]
  ELSE LET r == rebinInnerRow(h, p, c, 0, 0)
       IN  IF r.res # "ok" THEN r ELSE rebinInnerRows(r.heap, p, c + 1, count)

RebinHelper_rebinInner(h, dim, oldModel, newModel, oldCoord, newCoord) ==
  LET oldSize == size(h[oldModel].dims, dim)
      newSize == size(h[newModel].dims, dim)
      p == [old |-> oldModel, new |-> newModel, xold |-> h[oldCoord].data,
            xnew |-> h[newCoord].data, oldSize |-> oldSize,
            newSize |-> newSize]
  IN  IF oldSize = 0 THEN [heap |-> h, res |-> "undefined"]
      ELSE rebinInnerRows(h, p, 0, volume(h[oldModel].dims) \div oldSize)

\* VariableModel::rebin.  Only the branch for rebinInner is modelled; the
\* other branch walks VariableView iterators whose definition is not part
\* of the sources, and reports "GeneralRebin" here.
VariableModel_rebin(h, this, old, dim, oldCoord, newCoord) ==
  IF /\ label(this.dims, 1) = dim
     /\ ndim(oldCoord.dims) = 1
     /\ ndim(newCoord.dims) = 1
  THEN IF \E c \in {old, oldCoord, newCoord} :
            h[c.obj].etype # h[this.obj].etype
       THEN [heap |-> h, res |-> "BadCast"]
       ELSE IF h[this.obj].etype \in {"string", "Dataset", "ValueWithDelta"}
       THEN [heap |-> h, res |-> "NotArithmetic"]
       ELSE RebinHelper_rebinInner(h, dim, old.obj, this.obj,
                                   oldCoord.obj, newCoord.obj)
  ELSE [heap |-> h, res |-> "GeneralRebin"]

coordDimension(tag) == IF tag = "X" THEN "X" ELSE "Invalid"

rebin(m, var, oldCoord, newCoord) ==
  LET dim == coordDimension(m.vars[newCoord].type)
      m1 == Variable_assign(m, "tmp", var)
  IN  IF ~contains(dimensions(m, var), dim) \/ ~contains(dimensions(m, newCoord), dim)
      THEN Result(m, "DimensionNotFound")
      ELSE LET m2 == Variable_setDimensions(
                       m1, "tmp",
                       resize(dimensions(m, var), dim,
                              size(dimensions(m, newCoord), dim) - 1))
               m3 == Variable_data(m2, "tmp")
               r == VariableModel_rebin(m3.heap, mutableData(m3, "tmp"),
                                        constData(m3, var), dim,
                                        constData(m3, oldCoord),
                                        constData(m3, newCoord))
           IN  [vars |-> m3.vars, heap |-> r.heap, res |-> r.res]

(***************************************************************************)
(* SpecShape: one shape-changing call on a Variable in any configuration   *)
(* of two Variables of rank <= 2.  The result of a free function is        *)
(* assigned to the Variable `dest`.                                        *)
(***************************************************************************)
\* dest = f(...): on an exception dest keeps its value.
Store(call, dest, r) ==
  Return([call EXCEPT !.dest = dest],
         IF r.res = "ok" THEN [r EXCEPT !.vars[dest] = r.vars["tmp"]] ELSE r)

Here == withLocals(Machine)

Extent(n, dim) == size(dimensions(Machine, n), dim)

Has(n, dim) == contains(dimensions(Machine, n), dim)

SlicePoint(dest, var, dim, idx) ==
  /\ InRange(var, dim, idx)
  /\ Store([Call("slice", NoOperand, Var(var)) EXCEPT !.dim = dim, !.idx = idx],
           dest, slicePoint(Here, var, dim, idx))

SliceRange(dest, var, dim, begin, end) ==
  /\ begin < end
  /\ Has(var, dim) => end <= Extent(var, dim)
  /\ Store([Call("sliceRange", NoOperand, Var(var)) EXCEPT
               !.dim = dim, !.idx = begin, !.arg = end],
           dest, sliceRange(Here, var, dim, begin, end))

\* Split positions: strictly increasing and inside the extent.
Cuts(n) ==
  {s \in UNION {[1..k -> 1..(n - 1)] : k \in 0..(n - 1)} :
     \A i \in 1..(Len(s) - 1) : s[i] < s[i + 1]}

Split(dest, var, dim, indices, j) ==
  /\ Has(var, dim)
  /\ indices \in Cuts(Extent(var, dim))
  /\ j <= Len(indices) + 1
  /\ Store([Call("split", NoOperand, Var(var)) EXCEPT
               !.dim = dim, !.idx = j, !.arg = Len(indices)],
           dest, split(Here, var, dim, indices, j))

Concatenate(dest, a1, a2, dim) ==
  Store([Call("concatenate", Var(a1), Var(a2)) EXCEPT !.dim = dim],
        dest, concatenate(Here, a1, a2, dim))

Permute(dest, var, dim, indices) ==
  /\ Has(var, dim)
  /\ indices \in [1..Extent(var, dim) -> 0..(Extent(var, dim) - 1)]
  /\ Store([Call("permute", NoOperand, Var(var)) EXCEPT !.dim = dim],
           dest, permute(Here, var, dim, indices))

\* The filter is a Coord::Mask made for the call, as long as var along dim.
Filter(dest, var, dim, mask) ==
  /\ Has(var, dim)
  /\ mask \in [1..Extent(var, dim) -> {0, 1}]
  /\ LET m == makeVariable(Here, "old", "Mask", D1(dim, Len(mask)), mask)
     IN  Store([Call("filter", NoOperand, Var(var)) EXCEPT
                   !.dim = dim, !.arg = kept(mask, Len(mask))],
               dest, filter(m, var, "old"))

\* Bin edges: strictly increasing, at least one bin.
Edges ==
  {s \in UNION {[1..k -> 1..(MaxExtent + 1)] : k \in 2..(MaxExtent + 1)} :
     \A i \in 1..(Len(s) - 1) : s[i] < s[i + 1]}

\* The old edges are 1, 2, ..: bins of width 1; X is the first Dim of var.
Rebin(dest, var, edges) ==
  /\ Has(var, "X")
  /\ label(dimensions(Machine, var), 1) = "X"
  /\ LET n == Extent(var, "X")
         m1 == makeVariable(Here, "old", "X", D1("X", n + 1),
                            [k \in 1..(n + 1) |-> k])
         m2 == makeVariable(m1, "new", "X", D1("X", Len(edges)), edges)
     IN  Store([Call("rebin", NoOperand, Var(var)) EXCEPT
                   !.dim = "X", !.arg = Len(edges) - 1],
               dest, rebin(m2, var, "old", "new"))

SetDimensions(n, shape) ==
  Return([Call("setDimensions", Var(n), NoOperand) EXCEPT !.shape = shape],
         Variable_setDimensions(Machine, n, shape))

\* n = slice, the slice being taken of another Variable.
AssignSlice(n, o) ==
  /\ o.slice
  /\ o.v # n
  /\ LET x == operand(Machine, o)
     IN  Return(Call("=", Var(n), o), Variable_assignSlice(x.m, n, x))

\* dest = Variable(slice)
FromSlice(dest, o) ==
  /\ o.slice
  /\ LET x == operand(Here, o)
     IN  Store(Call("Variable", NoOperand, o), dest, Variable_fromSlice(x.m, x))

\* n = makeVariable<Data::Value>(shape, count elements)
Make(n, shape, count) ==
  Return([Call("make", Var(n), NoOperand) EXCEPT
             !.shape = shape, !.arg = count],
         makeVariable(Machine, n, "Value", shape, [k \in 1..count |-> k]))

RecipesShape ==
  Recipe({"Value"}, Shapes, {"Dimensionless"}, {""})
    \cup Recipe({"Int"}, {Line}, {"Dimensionless"}, {""})
    \cup Recipe({"Value"}, {Line}, {"Length"}, {""})

InitShape ==
  \E ra \in RecipesShape, rb \in RecipesShape, shared \in BOOLEAN :
    Start(Configuration(ra, rb, shared))

Indices == 0..(MaxExtent - 1)

Point ==
  Fresh /\ \E dest \in Names, var \in Names, d \in {"X", "Y"}, i \in Indices :
             SlicePoint(dest, var, d, i)

Range ==
  /\ Fresh
  /\ \E dest \in Names, var \in Names, d \in {"X", "Y"},
        b \in Indices, e \in Extents :
       SliceRange(dest, var, d, b, e)

Pieces ==
  /\ Fresh
  /\ \E dest \in Names, var \in Names, d \in {"X", "Y"},
        s \in Cuts(MaxExtent), j \in Extents :
       Split(dest, var, d, s, j)

Join ==
  Fresh /\ \E dest \in Names, a1 \in Names, a2 \in Names, d \in {"X", "Y"} :
             Concatenate(dest, a1, a2, d)

Reorder ==
  /\ Fresh
  /\ \E dest \in Names, var \in Names, d \in {"X", "Y"},
        s \in UNION {[1..k -> Indices] : k \in Extents} :
       Permute(dest, var, d, s)

Select ==
  /\ Fresh
  /\ \E dest \in Names, var \in Names, d \in {"X", "Y"},
        s \in UNION {[1..k -> {0, 1}] : k \in Extents} :
       Filter(dest, var, d, s)

Regroup ==
  Fresh /\ \E dest \in Names, var \in Names, s \in Edges : Rebin(dest, var, s)

Reshape == Fresh /\ \E n \in Names, sh \in Shapes : SetDimensions(n, sh)

AssignView ==
  Fresh /\ \E n \in Names, o \in Operands(Machine) : AssignSlice(n, o)

Materialise ==
  Fresh /\ \E n \in Names, o \in Operands(Machine) : FromSlice(n, o)

Construct ==
  /\ Fresh
  /\ \E n \in Names, sh \in {<<>>, Line, Square},
        count \in 0..(MaxExtent * MaxExtent + 1) :
       Make(n, sh, count)

NextShape ==
  \/ Point \/ Range \/ Pieces \/ Join \/ Reorder \/ Select \/ Regroup
  \/ Reshape \/ AssignView \/ Materialise \/ Construct

SpecShape == InitShape /\ [][NextShape]_state

\* C2: every Variable stores exactly volume(dimensions) elements, after
\* construction and after every operation, shape-changing ones included;
\* constructing a Variable from a different number of elements fails and
\* makes no Variable.
C2_StorageLength ==
  /\ \A n \in Names :
       Len(values(Machine, n)) = volume(dimensions(Machine, n))
  /\ last.op = "make" =>
       /\ last.res = "ok" <=> last.arg = volume(last.shape)
       /\ last.res # "ok" =>
            last.res = "SizeMismatch" /\ Machine = pre

\* A shape-changing call has given a Variable a different number of elements.
C2_Witness ==
  /\ last.op \in {"slice", "sliceRange", "split", "concatenate", "filter",
                  "rebin", "setDimensions", "=", "Variable"}
  /\ last.res = "ok"
  /\ \E n \in Names :
       /\ dimensions(Machine, n) # dimensions(pre, n)
       /\ Len(values(Machine, n)) # Len(values(pre, n))

(***************************************************************************)
(* SpecBounds: slices taken with any index, inside or outside the extent.  *)
(***************************************************************************)
\* Indices up to one past the largest extent.
AnyIndex == 0..(MaxExtent + 1)

AnySlices(m, n) ==
  {Slice(n, TRUE, <<R(dimensions(m, n)[i].label, k, e)>>) :
     i \in 1..Len(dimensions(m, n)), k \in AnyIndex,
     e \in {-1} \cup AnyIndex}

PointAny ==
  /\ Fresh
  /\ \E dest \in Names, var \in Names, d \in {"X", "Y"}, i \in AnyIndex :
       Store([Call("slice", NoOperand, Var(var)) EXCEPT !.dim = d, !.idx = i],
             dest, slicePoint(Here, var, d, i))

RangeAny ==
  /\ Fresh
  /\ \E dest \in Names, var \in Names, d \in {"X", "Y"},
        b \in AnyIndex, e \in AnyIndex :
       /\ b <= e
       /\ Store([Call("sliceRange", NoOperand, Var(var)) EXCEPT
                    !.dim = d, !.idx = b, !.arg = e],
                dest, sliceRange(Here, var, d, b, e))

\* dest = Variable(var(dim, begin, end)): the view is made and then read.
ViewAny ==
  /\ Fresh
  /\ \E dest \in Names, var \in Names :
       \E o \in AnySlices(Machine, var) :
         /\ o.restr[1].end # -1 => o.restr[1].begin <= o.restr[1].end
         /\ FromSlice(dest, o)

NextBounds == PointAny \/ RangeAny \/ ViewAny

SpecBounds == InitShape /\ [][NextBounds]_state

\* The last call sliced a Dim of the Variable outside 0 <= begin <= end <=
\* extent (or at an index >= extent).
OutOfBounds ==
  LET dims == dimensions(pre, last.rhs.v)
  IN  CASE last.op = "slice" ->
             contains(dims, last.dim) /\ last.idx >= size(dims, last.dim)
        [] last.op = "sliceRange" ->
             contains(dims, last.dim) /\ last.arg > size(dims, last.dim)
        [] last.op = "Variable" ->
             LET r == last.rhs.restr[1]
             IN  IF r.end = -1 THEN r.begin >= size(dims, r.dim)
                 ELSE r.end > size(dims, r.dim)
        [] OTHER -> FALSE

(***************************************************************************)
(* C11: every slice(var, Dim, begin, end), slice(var, Dim, idx) and        *)
(* var(Dim, begin, end) outside the bounds fails with an error and reads   *)
(* no element outside the storage; a range as long as the extent that      *)
(* starts after 0 does not return the whole Variable.                      *)
(***************************************************************************)
C11_SliceBoundsEnforced ==
  OutOfBounds => last.res \notin {"ok", "undefined"}

(***************************************************************************)
(* SpecPoint: slice(a, Dim, idx) of a Variable `a` of rank <= 3, at every  *)
(* Dim of it and every index inside the extent.                            *)
(***************************************************************************)
D3(d1, n1, d2, n2, d3, n3) ==
  <<[label |-> d1, size |-> n1], [label |-> d2, size |-> n2],
    [label |-> d3, size |-> n3]>>

\* The Dimensions of rank 3 over X, Y and Z, in every order.
Solids ==
  {D3(p[1], n1, p[2], n2, p[3], n3) :
     p \in {q \in [1..3 -> {"X", "Y", "Z"}] : \A i, j \in 1..3 : q[i] = q[j] => i = j},
     n1 \in Extents, n2 \in Extents, n3 \in Extents}

RecipesPoint ==
  Recipe({"Value"}, Shapes \cup Solids, {"Dimensionless"}, {""})
    \cup Recipe({"Value"}, {Square}, {"Length"}, {"n"})
    \cup Recipe({"X", "Int"}, {Line}, {"Length"}, {""})

InitPoint ==
  \E ra \in RecipesPoint, shared \in BOOLEAN :
    Start(Configuration(ra, [tag |-> "Value", dims |-> Line,
                             unit |-> "Dimensionless", name |-> ""], shared))

PointOf ==
  /\ Fresh
  /\ \E dest \in Names, d \in {"X", "Y", "Z"}, i \in Indices :
       Has("a", d) /\ SlicePoint(dest, "a", d, i)

NextPoint == PointOf

SpecPoint == InitPoint /\ [][NextPoint]_state

\* Dimensions without the Dim d, the order of the others kept.
without(dims, d) == SelectSeq(dims, LAMBDA e : e.label # d)

(***************************************************************************)
(* C12: slice(var, D, idx) with idx inside the extent of D succeeds and    *)
(* gives an owning Variable with var's name, unit and tag, with var's      *)
(* Dimensions less D, whose element at multi-index j is var's element at   *)
(* j extended by D = idx; var is unchanged.                                *)
(***************************************************************************)
C12_PointSliceContent ==
  last.op = "slice" =>
    LET src == last.rhs.v
        dest == last.dest
        out == without(dimensions(pre, src), last.dim)
    IN  /\ last.res = "ok"
        /\ vars[dest].type = pre.vars[src].type
        /\ vars[dest].name = pre.vars[src].name
        /\ vars[dest].unit = pre.vars[src].unit
        /\ dimensions(Machine, dest) = out
        /\ Len(values(Machine, dest)) = volume(out)
        /\ \A k \in 0..(volume(out) - 1) :
             at(Machine, dest, multiIndex(out, k))
               = at(pre, src, [multiIndex(out, k) EXCEPT ![last.dim] = last.idx])
        /\ refcount(Machine, vars[dest].obj) = 1
        /\ dest # src =>
             /\ vars[src] = pre.vars[src]
             /\ heap[vars[src].obj] = pre.heap[pre.vars[src].obj]

\* A slice at index 1 of the middle Dim of a Variable of rank 3.
C12_Witness ==
  /\ last.op = "slice" /\ last.res = "ok" /\ last.idx = 1
  /\ Len(dimensions(pre, last.rhs.v)) = 3
  /\ dimensions(pre, last.rhs.v)[2].label = last.dim
  /\ dimensions(pre, last.rhs.v)[3].size > 1

(***************************************************************************)
(* SpecRound: split a Variable along one of its Dims at any positions      *)
(* within [0, extent] and concatenate the parts again, in order.           *)
(***************************************************************************)
\* parts[j] of the vector that split returned, kept in the local "new";
\* "old" holds the concatenation of the parts before it.  Each step's outcome
\* (p the part, c the concatenation) is a value computed once.
RECURSIVE joinParts(_, _, _, _, _)
joinParts(m, var, dim, indices, j) ==
  IF j > Len(indices) + 1 /\ Len(indices) > 0 THEN Result(m, "ok")
  ELSE IF j > 1 /\ Len(indices) = 0 THEN Result(m, "ok")
  ELSE CHOOSE r \in
         {IF p.res # "ok" THEN p
          ELSE IF j = 1
          THEN joinParts(collect(Variable_assign(p, "old", "tmp")),
                         var, dim, indices, 2)
          ELSE CHOOSE q \in
                 {IF c.res # "ok" THEN c
                  ELSE joinParts(collect(Variable_assign(c, "old", "tmp")),
                                 var, dim, indices, j + 1) :
                    c \in {concatenate(
                             collect(Variable_assign(p, "new", "tmp")),
                             "old", "new", dim)}} : TRUE :
            p \in {split(m, var, dim, indices, j)}} : TRUE

\* Positions: strictly increasing, within [0, n].
Positions(n) ==
  {p \in UNION {[1..k -> 0..n] : k \in 0..(n + 1)} :
     \A i \in 1..(Len(p) - 1) : p[i] < p[i + 1]}

\* dest = concatenate(..concatenate(parts[0], parts[1], dim).., dim)
SplitJoin(dest, var, dim, indices) ==
  /\ Has(var, dim)
  /\ indices \in Positions(Extent(var, dim))
  /\ LET r == joinParts(Here, var, dim, indices, 1)
     IN  Return([Call("splitjoin", NoOperand, Var(var)) EXCEPT
                    !.dest = dest, !.dim = dim, !.arg = Len(indices),
                    !.idx = IF Len(indices) > 0 THEN indices[1] ELSE -1],
                IF r.res = "ok" THEN [r EXCEPT !.vars[dest] = r.vars["old"]]
                ELSE r)

RecipesRound ==
  Recipe({"Value"}, Shapes \ {<<>>}, {"Dimensionless"}, {""})
    \cup Recipe({"Value"}, {Square}, {"Length"}, {"n"})
    \cup Recipe({"X", "Int", "String", "Events", "FuzzyTemperature"}, {Line},
                {"Length"}, {""})

InitRound ==
  \E ra \in RecipesRound, shared \in BOOLEAN :
    Start(Configuration(ra, [tag |-> "Value", dims |-> Line,
                             unit |-> "Dimensionless", name |-> ""], shared))

Rejoin ==
  /\ Fresh
  /\ \E d \in {"X", "Y"},
        p \in UNION {[1..k -> 0..MaxExtent] : k \in 0..(MaxExtent + 1)} :
       SplitJoin("b", "a", d, p)

NextRound == Rejoin

SpecRound == InitRound /\ [][NextRound]_state

(***************************************************************************)
(* C13: concatenating the parts of split(v, D, positions) along D, in      *)
(* order, gives a Variable equal to v, for every strictly increasing list  *)
(* of positions within [0, extent], the empty list included.               *)
(***************************************************************************)
C13_SplitConcatenateRoundTrip ==
  last.op = "splitjoin" =>
    /\ last.res = "ok"
    /\ Variable_equals(Machine, operand(Machine, Var(last.dest)),
                       operand(Machine, Var(last.rhs.v)))

\* The operands of the last concatenate agree in tag, unit and name, and
\* in the extents of all Dims other than the one joined.
Joinable ==
  LET a1 == last.lhs.v
      a2 == last.rhs.v
      d1 == without(dimensions(pre, a1), last.dim)
      d2 == without(dimensions(pre, a2), last.dim)
  IN  /\ pre.vars[a1].type = pre.vars[a2].type
      /\ pre.vars[a1].unit = pre.vars[a2].unit
      /\ pre.vars[a1].name = pre.vars[a2].name
      /\ Len(d1) = Len(d2)
      /\ \A i \in 1..Len(d1) :
           contains(d2, d1[i].label) /\ size(d2, d1[i].label) = d1[i].size

extentOr1(dims, d) == IF contains(dims, d) THEN size(dims, d) ELSE 1

(***************************************************************************)
(* C14: concatenate(a, b, Dim) of joinable a and b has the extent          *)
(* extent_or_1(a) + extent_or_1(b) along Dim and a's other extents; Dim    *)
(* keeps its place in a's Dimensions or, when a does not have it, becomes  *)
(* the outermost Dim; the slabs along Dim are a's in order, then b's.      *)
(***************************************************************************)
C14_ConcatenateShapeOrder ==
  (last.op = "concatenate" /\ Joinable) =>
    LET a1 == last.lhs.v
        a2 == last.rhs.v
        D == last.dim
        d1 == dimensions(pre, a1)
        e1 == extentOr1(d1, D)
        e2 == extentOr1(dimensions(pre, a2), D)
        joined == [label |-> D, size |-> e1 + e2]
        expected == IF contains(d1, D)
                    THEN [i \in 1..Len(d1) |->
                            IF d1[i].label = D THEN joined ELSE d1[i]]
                    ELSE <<joined>> \o d1
    IN  /\ last.res = "ok"
        /\ dimensions(Machine, last.dest) = expected
        /\ vars[last.dest].type = pre.vars[a1].type
        /\ vars[last.dest].unit = pre.vars[a1].unit
        /\ vars[last.dest].name = pre.vars[a1].name
        /\ Len(values(Machine, last.dest)) = volume(expected)
        /\ \A k \in 0..(volume(expected) - 1) :
             LET ix == multiIndex(expected, k)
             IN  at(Machine, last.dest, ix)
                   = IF ix[D] < e1 THEN at(pre, a1, ix)
                     ELSE at(pre, a2, [ix EXCEPT ![D] = @ - e1])

\* Two different Variables of rank 1 joined along a Dim neither has.
C14_Witness ==
  /\ last.op = "concatenate" /\ last.res = "ok" /\ Joinable
  /\ pre.vars[last.lhs.v].obj # pre.vars[last.rhs.v].obj
  /\ dimensions(pre, last.lhs.v) = Line
  /\ ~contains(dimensions(pre, last.rhs.v), last.dim)
  /\ dimensions(Machine, last.dest)[1] = [label |-> last.dim, size |-> 2]

(***************************************************************************)
(* SpecFill: d.setSlice(slice(parent, D, i), D, i), for one index or for   *)
(* all indices of D in some order; parent is `a`, d is `b`, a Variable of  *)
(* the same tag, unit and Dimensions.                                      *)
(***************************************************************************)
\* The end of the life of the local Variable n.
drop(m, n) ==
  collect([vars |-> [m.vars EXCEPT ![n] = NoVariable], heap |-> m.heap])

\* for (index : order) d.setSlice(slice(parent, dim, index), dim, index);
RECURSIVE setSlices(_, _, _, _, _, _)
setSlices(m, d, parent, dim, order, k) ==
  IF k > Len(order) THEN Result(m, "ok")
  ELSE CHOOSE q \in
         {IF p.res # "ok" THEN p
          ELSE CHOOSE x \in
                 {IF r.res # "ok" THEN r
                  ELSE setSlices(drop(r, "tmp"), d, parent, dim, order, k + 1) :
                    r \in {Variable_setSlice(p, d, "tmp", dim, order[k])}} :
                 TRUE :
            p \in {slicePoint(m, parent, dim, order[k])}} : TRUE

SetSliceOf(d, parent, dim, idx) ==
  /\ Has(parent, dim)
  /\ InRange(parent, dim, idx)
  /\ Return([Call("setSliceOf", Var(d), Var(parent)) EXCEPT
                !.dim = dim, !.idx = idx],
            setSlices(Here, d, parent, dim, <<idx>>, 1))

SetSliceAll(d, parent, dim, order) ==
  /\ Has(parent, dim)
  /\ Len(order) = Extent(parent, dim)
  /\ \A i \in Indices : i < Len(order) => \E k \in 1..Len(order) : order[k] = i
  /\ Return([Call("setSliceAll", Var(d), Var(parent)) EXCEPT !.dim = dim],
            setSlices(Here, d, parent, dim, order, 1))

RecipesFill ==
  Recipe({"Value"}, (Shapes \cup Solids) \ {<<>>}, {"Dimensionless"}, {"", "n"})
    \cup Recipe({"X", "Int", "String", "Events", "FuzzyTemperature"}, {Line},
                {"Length"}, {""})

InitFill ==
  \E ra \in RecipesFill, name \in {"", "n"}, shared \in BOOLEAN :
    /\ isCoord(ra.tag) => name = ""
    /\ shared => name = ra.name
    /\ Start(Configuration(ra, [ra EXCEPT !.name = name], shared))

FillOne ==
  /\ Fresh
  /\ \E d \in {"X", "Y", "Z"}, i \in Indices : SetSliceOf("b", "a", d, i)

FillAll ==
  /\ Fresh
  /\ \E d \in {"X", "Y", "Z"},
        o \in UNION {[1..n -> Indices] : n \in Extents} :
       SetSliceAll("b", "a", d, o)

NextFill == FillOne \/ FillAll

SpecFill == InitFill /\ [][NextFill]_state

(***************************************************************************)
(* C15: with d of parent's tag, unit and Dimensions, one call              *)
(* d.setSlice(slice(parent, D, i), D, i) succeeds and changes only the     *)
(* elements of d in the slab at i, and after the calls for all indices of  *)
(* D, in any order, d == parent.                                           *)
(***************************************************************************)
C15_SetSliceRoundTrip ==
  /\ last.op = "setSliceOf" =>
       /\ last.res = "ok"
       /\ dimensions(Machine, "b") = dimensions(pre, "b")
       /\ \A k \in 0..(volume(dimensions(pre, "b")) - 1) :
            LET ix == multiIndex(dimensions(pre, "b"), k)
            IN  ix[last.dim] # last.idx =>
                  at(Machine, "b", ix) = at(pre, "b", ix)
  /\ last.op = "setSliceAll" =>
       /\ last.res = "ok"
       /\ Variable_equals(Machine, operand(Machine, Var("b")),
                          operand(Machine, Var("a")))

(***************************************************************************)
(* SpecThrough: one in-place call on a mutable VariableSlice of `a`, made  *)
(* by one restriction or by two along different Dims in either order; the  *)
(* rhs is a Variable or a slice of `a` or `b`.                             *)
(***************************************************************************)
\* var(D1, ...) and var(D1, ...)(D2, ...) on a non-const var: point and
\* range restrictions along the Dims of n.
Targets(m, n) ==
  LET rs == {R(dimensions(m, n)[i].label, k, e) :
               i \in 1..Len(dimensions(m, n)), k \in Indices,
               e \in {-1} \cup Extents}
  IN  {t \in {Slice(n, FALSE, <<r>>) : r \in rs}
               \cup {Slice(n, FALSE, <<r1, r2>>) : r1 \in rs, r2 \in rs} :
         /\ valid(m, t)
         /\ Len(t.restr) = 2 => t.restr[1].dim # t.restr[2].dim}

\* The rhs of `t op= rhs`: `a` or `b`, a slice of `a` itself, or a Variable
\* made for the call (the local "tmp") whose Dimensions the target contains.
Sources(m, t) ==
  {Var(n) : n \in Names}
    \cup {o \in PointSlices(m, t.v) \cup RangeSlices(m, t.v) :
            valid(m, o) /\ ~o.const}
    \cup {Var("tmp")}

\* `t op= o`: the two operand expressions are evaluated in either order
\* (the rhs first when rhsFirst), then the operator is called.  r is the
\* recipe of the Variable made for the call.
SliceOperation(t, o, r, rhsFirst, op) ==
  LET m == IF o.v = "tmp" THEN make(Here, "tmp", r, 100) ELSE Here
      x == IF rhsFirst THEN operand(m, o)
           ELSE operand(VariableSlice_new(m, t).m, o)
      y == VariableSlice_new(x.m, t)
      target == [m |-> y.m, c |-> y.c, v |-> t.v]
  IN  Return([Call(op, t, o) EXCEPT !.shape = r.dims, !.unit = x.unit],
             CASE op = "+=" -> VariableSlice_plusEquals(y.m, target, x)
               [] op = "-=" -> VariableSlice_minusEquals(y.m, target, x)
               [] op = "*=" -> VariableSlice_timesEquals(y.m, target, x))

\* The calls `t op= rhs` a caller can make on slices of `a`.  The order of
\* evaluation of the operands shows only when `a` shares its storage.
Through(op) ==
  \E t \in Targets(Machine, "a"), rhsFirst \in BOOLEAN :
    \E o \in Sources(Machine, t),
       r \in Recipe({"Value"}, Shapes, {"Dimensionless", "Length"}, {""}) :
      /\ containsDims(operandDims(Machine, t), r.dims)
      /\ ~rhsFirst => vars["a"].obj = vars["b"].obj
      /\ o.v # "tmp" => r.dims = <<>> /\ r.unit = "Dimensionless"
      /\ SliceOperation(t, o, r, rhsFirst, op)

RecipesThrough ==
  Recipe({"Value"}, {D1("X", n) : n \in Extents}
                      \cup {D2("Y", n, "X", k) : n \in Extents, k \in Extents},
         {"Dimensionless"}, {""})

InitThrough ==
  \E ra \in RecipesThrough, shared \in BOOLEAN :
    Start(Configuration(ra, ra, shared))

AddThrough == Fresh /\ Through("+=")

SubtractThrough == Fresh /\ Through("-=")

MultiplyThrough == Fresh /\ Through("*=")

NextThrough == AddThrough \/ SubtractThrough \/ MultiplyThrough

SpecThrough == InitThrough /\ [][NextThrough]_state

\* The element of the rhs of the last call at multi-index ix of its lhs.
sourceAt(ix) ==
  IF last.rhs.v = "tmp"
  THEN fill("Value", last.shape, 100)[1 + flatFrom(last.shape, ix, 1)]
  ELSE operandAt(pre, last.rhs, ix)

\* The positions (1-based) in the buffer of the Variable sliced that lie in
\* the region of the slice o.
region(m, o) ==
  {1 + flatFrom(dimensions(m, o.v),
                lift(o.restr, multiIndex(operandDims(m, o), k),
                     Len(o.restr)), 1) :
     k \in 0..(volume(operandDims(m, o)) - 1)}

(***************************************************************************)
(* C16: after a successful `var(D1, b1, e1)(D2, b2, e2) op= rhs` (point    *)
(* slices included, restrictions in either order) every element of var    *)
(* inside the region is its old value op the corresponding rhs element,    *)
(* every element outside is unchanged, and so are the Dimensions of var    *)
(* and, for + and -, its unit.                                             *)
(***************************************************************************)
C16_SliceWriteThrough ==
  (last.op \in Arithmetic /\ last.lhs.slice /\ last.res = "ok") =>
    LET n == last.lhs.v
        sdims == operandDims(pre, last.lhs)
    IN  /\ dimensions(Machine, n) = dimensions(pre, n)
        /\ last.op # "*=" => vars[n].unit = pre.vars[n].unit
        /\ \A k \in 0..(volume(sdims) - 1) :
             operandAt(Machine, last.lhs, multiIndex(sdims, k)) =
               arithmetic(opOf(last.op),
                          operandAt(pre, last.lhs, multiIndex(sdims, k)),
                          sourceAt(multiIndex(sdims, k)))
        /\ \A p \in 1..Len(values(pre, n)) :
             p \notin region(pre, last.lhs) =>
               values(Machine, n)[p] = values(pre, n)[p]

(***************************************************************************)
(* C17: `*=` through a mutable slice whose Dimensions differ from those of *)
(* the Variable sliced fails when the product unit differs from the unit   *)
(* of the Variable, and leaves its unit and elements as they were; after   *)
(* any call through a slice the unit of the Variable has changed only if   *)
(* the slice had its full Dimensions.                                      *)
(***************************************************************************)
C17_PartialUnitChangeRejected ==
  (last.op \in Arithmetic /\ last.lhs.slice) =>
    LET n == last.lhs.v
        partial == operandDims(pre, last.lhs) # dimensions(pre, n)
    IN  /\ (/\ last.op = "*=" /\ partial
            /\ unitTimes(pre.vars[n].unit, last.unit) # pre.vars[n].unit) =>
             Failed /\ Untouched(n)
        /\ vars[n].unit # pre.vars[n].unit => ~partial

\* A slice made by two restrictions is refused a change of unit by an rhs
\* whose Dimensions it contains.
C17_Witness ==
  /\ last.op = "*=" /\ last.lhs.slice
  /\ last.res = "PartialUnitChange"
  /\ Len(last.lhs.restr) = 2
  /\ last.rhs.v = "tmp" /\ last.unit = "Length"
  /\ containsDims(operandDims(pre, last.lhs), last.shape)

(***************************************************************************)
(* SpecRebin: b = rebin(a, oldEdge, newEdge) with Coord::X edges made for  *)
(* the call; X is the first Dim of `a`, so VariableModel::rebin takes the  *)
(* rebinInner branch.  The elements of `a` are multiples of Whole, which   *)
(* every bin width divides.                                                *)
(***************************************************************************)
Whole ==
  LET RECURSIVE factorial(_)
      factorial(n) == IF n = 0 THEN 1 ELSE n * factorial(n - 1)
  IN  factorial(MaxExtent)

\* Edge lists for k bins; the sorted ones are monotonically non-decreasing.
EdgeLists(k) == [1..(k + 1) -> 1..(MaxExtent + 1)]

sorted(s) == \A i \in 1..(Len(s) - 1) : s[i] <= s[i + 1]

increasing(s) == \A i \in 1..(Len(s) - 1) : s[i] < s[i + 1]

RebinEdges(dest, var, xold, xnew) ==
  LET m1 == makeVariable(Here, "old", "X", D1("X", Len(xold)), xold)
      m2 == makeVariable(m1, "new", "X", D1("X", Len(xnew)), xnew)
  IN  Store([Call("rebin", NoOperand, Var(var)) EXCEPT
                !.dim = "X", !.xold = xold, !.xnew = xnew],
            dest, rebin(m2, var, "old", "new"))

RecipesRebin ==
  Recipe({"Value"}, {D1("X", n) : n \in Extents}
                      \cup {D2("X", n, "Y", k) : n \in Extents, k \in Extents},
         {"Dimensionless"}, {""})

InitRebin ==
  \E ra \in RecipesRebin :
    Start(make(make(Empty, "a", ra, Whole), "b", ra, 1))

RebinSorted ==
  /\ Fresh
  /\ \E xold \in EdgeLists(Extent("a", "X")),
        xnew \in UNION {EdgeLists(k) : k \in Extents} :
       sorted(xold) /\ sorted(xnew) /\ RebinEdges("b", "a", xold, xnew)

RebinUnsorted ==
  /\ Fresh
  /\ \E xold \in EdgeLists(Extent("a", "X")),
        xnew \in UNION {EdgeLists(k) : k \in Extents} :
       /\ (sorted(xold) /\ ~sorted(xnew)) \/ (~sorted(xold) /\ increasing(xnew))
       /\ RebinEdges("b", "a", xold, xnew)

NextRebin == RebinSorted \/ RebinUnsorted

SpecRebin == InitRebin /\ [][NextRebin]_state

(***************************************************************************)
(* C18: for strictly increasing 1-D edges, rebin(var, old, new) has the    *)
(* Dimensions of var with the extent along Dim replaced by the number of   *)
(* new bins, and for each combination of the other Dims its value in bin n *)
(* is the sum over the old bins i of v_i * overlap(i, n) / width_old(i).   *)
(***************************************************************************)
C18_RebinResult ==
  (last.op = "rebin" /\ increasing(last.xold) /\ increasing(last.xnew)) =>
    LET xo == last.xold
        xn == last.xnew
        min(x, y) == IF x < y THEN x ELSE y
        max(x, y) == IF x > y THEN x ELSE y
        overlap(i, n) ==
          max(0, min(xo[i + 2], xn[n + 2]) - max(xo[i + 1], xn[n + 1]))
        dims == resize(dimensions(pre, "a"), "X", Len(xn) - 1)
        RECURSIVE sum(_, _, _)
        sum(ix, n, i) ==
          IF i < 0 THEN 0
          ELSE sum(ix, n, i - 1)
                 + (at(pre, "a", [ix EXCEPT !["X"] = i]) * overlap(i, n))
                     \div (xo[i + 2] - xo[i + 1])
    IN  /\ last.res = "ok"
        /\ dimensions(Machine, "b") = dims
        /\ \A k \in 0..(volume(dims) - 1) :
             LET ix == multiIndex(dims, k)
             IN  at(Machine, "b", ix) = sum(ix, ix["X"], Len(xo) - 2)

(***************************************************************************)
(* C19: for monotonically non-decreasing old and new edges with the same   *)
(* first and the same last edge, rebin succeeds and, for every combination *)
(* of the other Dims, the sum of the result along the rebinned Dim is the  *)
(* sum of var along it (the elements are such that divisions are exact).   *)
(***************************************************************************)
C19_RebinConservation ==
  (/\ last.op = "rebin" /\ sorted(last.xold) /\ sorted(last.xnew)
   /\ last.xold[1] = last.xnew[1]
   /\ last.xold[Len(last.xold)] = last.xnew[Len(last.xnew)]) =>
    LET others == without(dimensions(pre, "a"), "X")
        RECURSIVE total(_, _, _, _)
        total(m, n, ix, i) ==
          IF i < 0 THEN 0
          ELSE total(m, n, ix, i - 1) + at(m, n, [ix EXCEPT !["X"] = i])
    IN  /\ last.res = "ok"
        /\ \A k \in 0..(volume(others) - 1) :
             total(Machine, "b", multiIndex(others, k), Len(last.xnew) - 2) =
               total(pre, "a", multiIndex(others, k), Len(last.xold) - 2)

(***************************************************************************)
(* C20: rebin(var, old_edges, new_edges) fails with an error, and gives no *)
(* Variable, whenever old_edges or new_edges is not monotonically          *)
(* non-decreasing.                                                         *)
(***************************************************************************)
C20_RebinValidatesEdges ==
  (last.op = "rebin" /\ (~sorted(last.xold) \/ ~sorted(last.xnew))) =>
    /\ Failed
    /\ vars["b"] = pre.vars["b"]

(***************************************************************************)
(* Dataset (src/src/dataset.h): the Variables it owns, here their tag,     *)
(* name and Dimensions, and the registry m_dimensions.  Dataset::insert    *)
(* and Dataset::mergeDimensions are defined in dataset.cpp.                *)
(***************************************************************************)
\* The state after constructing the subject x; no Variable exists.
StartOn(x) ==
  /\ vars = Empty.vars
  /\ heap = Empty.heap
  /\ pre = x
  /\ last = Nothing
  /\ steps = 0
  /\ subject = x

\* The end of a call on the subject: r.self is the subject after it.
ReturnOn(call, r) ==
  /\ subject' = r.self
  /\ pre' = subject
  /\ last' = [call EXCEPT !.res = r.res]
  /\ steps' = steps + 1
  /\ UNCHANGED <<vars, heap>>

NoDataset == [variables |-> <<>>, dimensions |-> <<>>]

\* mergeDimensions for the Dims i.. of dims: an extent must be the one the
\* registry has; a dimension coordinate may be one longer (bin edges), and a
\* Variable one shorter than a registry extent that only the dimension
\* coordinate has used so far turns that coordinate into bin edges.
RECURSIVE Dataset_mergeDimensions(_, _, _, _)
Dataset_mergeDimensions(d, dims, coordDim, i) ==
  IF i > Len(dims) THEN [self |-> d, res |-> "ok"]
  ELSE LET dim == dims[i].label
           n == dims[i].size
           reg == d.dimensions
           onlyCoord == \A k \in 1..Len(d.variables) :
                          contains(d.variables[k].dims, dim) =>
                            coordDimension(d.variables[k].type) = dim
       IN  IF ~contains(reg, dim)
           THEN Dataset_mergeDimensions(
                  [d EXCEPT !.dimensions = add(reg, dim, n)], dims, coordDim, i + 1)
           ELSE IF size(reg, dim) = n \/ (dim = coordDim /\ size(reg, dim) = n - 1)
           THEN Dataset_mergeDimensions(d, dims, coordDim, i + 1)
           ELSE IF dim # coordDim /\ size(reg, dim) = n + 1 /\ onlyCoord
           THEN Dataset_mergeDimensions(
                  [d EXCEPT !.dimensions = resize(reg, dim, n)], dims, coordDim, i + 1)
           ELSE [self |-> d, res |-> "DimensionMismatch"]

\* Dataset::insert(variable)
Dataset_insert(d, v) ==
  IF \E k \in 1..Len(d.variables) :
       /\ d.variables[k].type = v.type
       /\ isCoord(v.type) \/ d.variables[k].name = v.name
  THEN [self |-> d, res |-> "Duplicate"]
  ELSE LET r == Dataset_mergeDimensions(d, v.dims, coordDimension(v.type), 1)
       IN  IF r.res # "ok" THEN [self |-> d, res |-> r.res]
           ELSE [self |-> [r.self EXCEPT !.variables = Append(@, v)],
                 res |-> "ok"]

\* Dataset::erase<Tag>(): the Variable found by findUnique is removed, then
\* every Dim of it that no remaining Variable has leaves the registry.
Dataset_erase(d, tag) ==
  LET found == {k \in 1..Len(d.variables) : d.variables[k].type = tag}
      dims == d.variables[CHOOSE k \in found : TRUE].dims
      rest == SelectSeq(d.variables, LAMBDA v : v.type # tag)
      used(dim) == \E k \in 1..Len(rest) : contains(rest[k].dims, dim)
  IN  IF Cardinality(found) # 1 THEN [self |-> d, res |-> "NotUnique"]
      ELSE [self |-> [variables |-> rest,
                      dimensions |->
                        SelectSeq(d.dimensions,
                                  LAMBDA e : contains(dims, e.label) => used(e.label))],
            res |-> "ok"]

\* Dataset::merge(other): insert(var) for every var of other, until one throws.
RECURSIVE Dataset_merge(_, _, _)
Dataset_merge(d, other, k) ==
  IF k > Len(other.variables) THEN [self |-> d, res |-> "ok"]
  ELSE LET r == Dataset_insert(d, other.variables[k])
       IN  IF r.res # "ok" THEN r ELSE Dataset_merge(r.self, other, k + 1)

(***************************************************************************)
(* SpecDataset: insert, merge and erase on a Dataset that starts empty.    *)
(* The Variables are a dimension coordinate Coord::X (bin edges included), *)
(* and data over X, over Y, and over both.                                 *)
(***************************************************************************)
Inserted ==
  [type : {"X"}, name : {""}, dims : {D1("X", n) : n \in 1..(MaxExtent + 1)}]
    \cup [type : {"Value"}, name : {"", "n"},
          dims : {D1("X", n) : n \in Extents}]
    \cup [type : {"Int"}, name : {""},
          dims : {D1("Y", MaxExtent), D2("Y", MaxExtent, "X", MaxExtent)}]

\* The Datasets a caller can have built for a merge.
Built ==
  {Dataset_merge(Dataset_insert(NoDataset, v).self,
                 [variables |-> <<w>>, dimensions |-> <<>>], 1).self :
     v \in Inserted, w \in Inserted}

Deep == steps < MaxSteps + 2

InsertVariable ==
  /\ Deep
  /\ \E v \in Inserted :
       ReturnOn([Call("insert", NoOperand, NoOperand) EXCEPT !.shape = v.dims],
                Dataset_insert(subject, v))

MergeDataset ==
  /\ Deep
  /\ \E other \in Built :
       ReturnOn([Call("merge", NoOperand, NoOperand) EXCEPT
                    !.arg = Len(other.variables)],
                Dataset_merge(subject, other, 1))

EraseVariable ==
  /\ Deep
  /\ \E tag \in {"X", "Value", "Int"} :
       ReturnOn(Call("erase", NoOperand, NoOperand), Dataset_erase(subject, tag))

InitDataset == StartOn(NoDataset)

NextDataset == InsertVariable \/ MergeDataset \/ EraseVariable

SpecDataset == InitDataset /\ [][NextDataset]_state

Slice_new(d) ==
  [dataset |-> d, indices |-> [k \in 1..Len(d.variables) |-> k], slices |-> <<>>]

\* Slice::operator()(dim, begin, end): a restriction the Slice already has
\* on dim is overwritten and that is all; otherwise the restriction is
\* appended and a point slice removes the coordinates of dim.
Slice_call(sl, dim, begin, end) ==
  IF \E i \in 1..Len(sl.slices) : sl.slices[i].dim = dim
  THEN [sl EXCEPT !.slices =
          [i \in 1..Len(sl.slices) |->
             IF sl.slices[i].dim = dim /\ \A j \in 1..(i - 1) : sl.slices[j].dim # dim
             THEN R(dim, begin, end) ELSE sl.slices[i]]]
  ELSE [sl EXCEPT
          !.slices = Append(@, R(dim, begin, end)),
          !.indices =
            IF end = -1
            THEN SelectSeq(@, LAMBDA k :
                              coordDimension(sl.dataset.variables[k].type) # dim)
            ELSE @]

\* detail::makeSlice(variable, slices): the restrictions along Dims the
\* Variable has, applied in order.
makeSlice(dims, slices) ==
  SelectSeq(slices, LAMBDA r : contains(dims, r.dim))

\* The elements of a Variable with Dimensions dims that the restrictions rs,
\* each relative to the one before, view: their positions in the Variable.
viewed(dims, rs) ==
  LET vd == restrictDims(dims, rs, 1)
  IN  [k \in 1..volume(vd) |->
         flatFrom(dims, lift(rs, multiIndex(vd, k - 1), Len(rs)), 1)]

(***************************************************************************)
(* SpecSlice: chains of (Dim, begin[, end]) calls, starting from the Slice *)
(* of a whole Dataset.                                                     *)
(***************************************************************************)
InitSlice == \E d \in Built : StartOn(Slice_new(d))

SlicePointOf ==
  /\ More
  /\ \E i \in 1..Len(subject.dataset.dimensions) :
       LET e == subject.dataset.dimensions[i]
       IN  \E begin \in 0..(e.size - 1) :
             ReturnOn([Call("()", NoOperand, NoOperand) EXCEPT
                          !.dim = e.label, !.idx = begin, !.arg = -1],
                      [self |-> Slice_call(subject, e.label, begin, -1),
                       res |-> "ok"])

SliceRangeOf ==
  /\ More
  /\ \E i \in 1..Len(subject.dataset.dimensions) :
       LET e == subject.dataset.dimensions[i]
           had == {j \in 1..Len(subject.slices) : subject.slices[j].dim = e.label}
           n == IF had = {} THEN e.size
                ELSE LET r == subject.slices[CHOOSE j \in had : TRUE]
                     IN  IF r.end = -1 THEN 1 ELSE r.end - r.begin
       IN  \E begin \in 0..n, end \in 0..n :
             /\ begin <= end
             /\ ReturnOn([Call("()", NoOperand, NoOperand) EXCEPT
                             !.dim = e.label, !.idx = begin, !.arg = end],
                         [self |-> Slice_call(subject, e.label, begin, end),
                          res |-> "ok"])

NextSlice == SlicePointOf \/ SliceRangeOf

SpecSlice == InitSlice /\ [][NextSlice]_state

(***************************************************************************)
(* C22: if the restriction a Slice records on a Dim is a point slice, no   *)
(* selected Variable is a coordinate whose coordinate dimension is that    *)
(* Dim.                                                                    *)
(***************************************************************************)
C22_PointSliceDropsCoordinate ==
  \A i \in 1..Len(subject.slices) :
    subject.slices[i].end = -1 =>
      \A j \in 1..Len(subject.indices) :
        coordDimension(subject.dataset.variables[subject.indices[j]].type)
          # subject.slices[i].dim

(***************************************************************************)
(* C29: a call (D, c, e) on a Slice restricted to (D, a, b), with          *)
(* 0 <= c <= e <= b - a, gives a Slice that views of every selected        *)
(* Variable the elements that (D, c, e) of the materialised Slice has:     *)
(* rows a + c .. a + e along D.                                            *)
(***************************************************************************)
C29_RestrictionsCompose ==
  (/\ last.op = "()" /\ last.arg # -1
   /\ \E i \in 1..Len(pre.slices) :
        pre.slices[i].dim = last.dim /\ pre.slices[i].end # -1)
  => \A j \in 1..Len(subject.indices) :
       LET dims == subject.dataset.variables[subject.indices[j]].dims
       IN  viewed(dims, makeSlice(dims, subject.slices))
             = viewed(dims, makeSlice(dims, Append(pre.slices,
                                                   R(last.dim, last.idx, last.arg))))

(***************************************************************************)
(* Dimensions as an object (src/src/dimensions.h): the constructor and the *)
(* mutators, with the checks each of them makes.                           *)
(***************************************************************************)
\* Dimensions(initializer_list): more than 6 entries, a Dim::Invalid and a
\* negative extent throw; nothing compares the labels with each other.
Dimensions_new(dims) ==
  IF Len(dims) > 6 THEN [self |-> <<>>, res |-> "TooManyDimensions"]
  ELSE IF \E i \in 1..Len(dims) :
            /\ dims[i].label = "Invalid"
            /\ \A j \in 1..(i - 1) : dims[j].size >= 0
  THEN [self |-> <<>>, res |-> "InvalidDimension"]
  ELSE IF \E i \in 1..Len(dims) : dims[i].size < 0
  THEN [self |-> <<>>, res |-> "NegativeExtent"]
  ELSE [self |-> dims, res |-> "ok"]

\* The labels and extents a caller passes.
Entries == [label : {"X", "Y", "Invalid"}, size : -1..MaxExtent]

InitDimensions == StartOn(<<>>)

\* dims = Dimensions({...}) with up to two entries, or with seven; a
\* constructor that throws leaves dims as it was.
ConstructDimensions ==
  /\ More
  /\ \E l \in {<<>>} \cup {<<e>> : e \in Entries}
               \cup {<<e, f>> : e \in Entries, f \in Entries}
               \cup {[i \in 1..7 |-> [label |-> "X", size |-> 1]]} :
       LET r == Dimensions_new(l)
       IN  ReturnOn([Call("Dimensions", NoOperand, NoOperand) EXCEPT !.shape = l],
                    IF r.res = "ok" THEN r ELSE [r EXCEPT !.self = subject])

\* dims.relabel(i, label) with i < ndim(): m_dims[i] = label.
Relabel ==
  /\ More
  /\ \E i \in 1..Len(subject), lab \in {"X", "Y", "Invalid"} :
       ReturnOn([Call("relabel", NoOperand, NoOperand) EXCEPT
                    !.idx = i - 1, !.dim = lab],
                [self |-> relabel(subject, i, lab), res |-> "ok"])

\* dims[dim] = n through the reference the non-const operator[] returns.
AssignExtent ==
  /\ More
  /\ \E e \in Entries :
       LET dim == e.label
           n == e.size
       IN
       ReturnOn([Call("[]", NoOperand, NoOperand) EXCEPT !.dim = dim, !.arg = n],
                IF contains(subject, dim)
                THEN [self |-> [subject EXCEPT ![index(subject, dim)].size = n],
                      res |-> "ok"]
                ELSE [self |-> subject, res |-> "DimensionNotFound"])

\* dims.add(label, size), dims.resize(label, size) and dims.erase(label).
AddDimension ==
  /\ More
  /\ \E e \in Entries :
       ReturnOn([Call("add", NoOperand, NoOperand) EXCEPT
                    !.dim = e.label, !.arg = e.size],
                IF e.label = "Invalid"
                THEN [self |-> subject, res |-> "InvalidDimension"]
                ELSE IF contains(subject, e.label)
                THEN [self |-> subject, res |-> "DuplicateDimension"]
                ELSE IF e.size < 0
                THEN [self |-> subject, res |-> "NegativeExtent"]
                ELSE IF Len(subject) = 6
                THEN [self |-> subject, res |-> "TooManyDimensions"]
                ELSE [self |-> add(subject, e.label, e.size), res |-> "ok"])

ResizeDimension ==
  /\ More
  /\ \E e \in Entries :
       LET dim == e.label
           n == e.size
       IN
       ReturnOn([Call("resize", NoOperand, NoOperand) EXCEPT
                    !.dim = dim, !.arg = n],
                IF ~contains(subject, dim)
                THEN [self |-> subject, res |-> "DimensionNotFound"]
                ELSE IF n < 0 THEN [self |-> subject, res |-> "NegativeExtent"]
                ELSE [self |-> resize(subject, dim, n), res |-> "ok"])

EraseDimension ==
  /\ More
  /\ \E dim \in {"X", "Y"} :
       ReturnOn([Call("erase", NoOperand, NoOperand) EXCEPT !.dim = dim],
                IF ~contains(subject, dim)
                THEN [self |-> subject, res |-> "DimensionNotFound"]
                ELSE [self |-> erase(subject, dim), res |-> "ok"])

NextDimensions ==
  \/ ConstructDimensions \/ Relabel \/ AssignExtent
  \/ AddDimension \/ ResizeDimension \/ EraseDimension

SpecDimensions == InitDimensions /\ [][NextDimensions]_state

(***************************************************************************)
(* C25: every Dimensions the constructors and the mutators give has at     *)
(* most 6 entries, pairwise distinct labels, no Dim::Invalid and no        *)
(* negative extent; an attempt to make another one fails.                  *)
(***************************************************************************)
C25_DimensionsWellFormed ==
  /\ Len(subject) <= 6
  /\ \A i, j \in 1..Len(subject) : subject[i].label = subject[j].label => i = j
  /\ \A i \in 1..Len(subject) :
       subject[i].label # "Invalid" /\ subject[i].size >= 0

(***************************************************************************)
(* C27: `v == w` does not depend on storage sharing: for w with v's name,  *)
(* unit, tag and Dimensions and the same elements, whether w shares the    *)
(* storage of v or holds a buffer of its own, the answer is true.          *)
(***************************************************************************)
C27_EqualityIgnoresSharing ==
  (/\ last.op = "=="
   /\ pre.vars[last.lhs.v].name = pre.vars[last.rhs.v].name
   /\ pre.vars[last.lhs.v].unit = pre.vars[last.rhs.v].unit
   /\ pre.vars[last.lhs.v].type = pre.vars[last.rhs.v].type
   /\ dimensions(pre, last.lhs.v) = dimensions(pre, last.rhs.v)
   /\ values(pre, last.lhs.v) = values(pre, last.rhs.v))
  => last.res = "true"

(***************************************************************************)
(* SpecLists: `+=` on event-list Variables of every extent from 0 on,      *)
(* whose first event list is filled or is a Dataset without dimension.     *)
(***************************************************************************)
\* makeVariable<Data::Events>(dims, data): the lists after the first one hold
\* one event each, the first one holds one or is Dataset().
Lists(dims) ==
  {l \in [1..volume(dims) -> {<<>>, D1("Event", 1)}] :
     \A k \in 2..volume(dims) : l[k] # <<>>}

InitLists ==
  \E da \in {<<>>} \cup {D1("X", k) : k \in 0..MaxExtent},
     db \in {<<>>} \cup {D1("X", k) : k \in 0..MaxExtent} :
    \E la \in Lists(da), lb \in Lists(db), shared \in BOOLEAN :
      LET m == makeVariable(Empty, "a", "Events", da, la)
      IN  Start(IF shared THEN Variable_assign(m, "b", "a")
                ELSE makeVariable(m, "b", "Events", db, lb))

AddLists == Fresh /\ \E n \in Names, o \in Names : PlusEquals(n, Var(o))

\* a(Dim::X, begin, end) += b
AddListsThrough ==
  /\ Fresh
  /\ \E begin \in 0..MaxExtent, end \in 0..MaxExtent :
       /\ contains(dimensions(Machine, "a"), "X")
       /\ begin <= end /\ end <= size(dimensions(Machine, "a"), "X")
       /\ LET t == Slice("a", FALSE, <<R("X", begin, end)>>)
              x == operand(Machine, Var("b"))
              y == VariableSlice_new(x.m, t)
          IN  Return(Call("+=", t, Var("b")),
                     VariableSlice_plusEquals(y.m, [m |-> y.m, c |-> y.c, v |-> "a"], x))

NextLists == AddLists \/ AddListsThrough

SpecLists == InitLists /\ [][NextLists]_state

(***************************************************************************)
(* C28: `+=` on an event-list Variable, or on a mutable slice of one,      *)
(* whose Dimensions equal those of the rhs completes or fails with an      *)
(* error; it reads no event list and no dimension label that is not there. *)
(***************************************************************************)
C28_EventListsReadInRange ==
  (/\ last.op = "+="
   /\ operandDims(pre, last.lhs) = operandDims(pre, last.rhs))
  => last.res # "undefined"

(***************************************************************************)
(* MultidimensionalIndex (dataset_view.h, src/unnamed/part_004): index,    *)
(* dimension and end, with the first dimension varying fastest.  count is  *)
(* the number of increment() calls made so far.                            *)
(***************************************************************************)
\* MultidimensionalIndex(dimension): index is all zero, end is dimension - 1.
MultidimensionalIndex_new(dimension) ==
  [index |-> [i \in 1..Len(dimension) |-> 0],
   dimension |-> dimension,
   end |-> [i \in 1..Len(dimension) |-> dimension[i] - 1],
   count |-> 0]

\* The loop of increment() from position i on (positions counted from 1):
\* "undefined" when index[i + 1] is a position outside the vector.
RECURSIVE carry(_, _)
carry(x, i) ==
  IF i > Len(x.index) \/ x.index[i] # x.dimension[i]
  THEN [self |-> x, res |-> "ok"]
  ELSE IF i + 1 > Len(x.index) THEN [self |-> x, res |-> "undefined"]
  ELSE carry([x EXCEPT !.index[i] = 0, !.index[i + 1] = @ + 1], i + 1)

\* MultidimensionalIndex::increment(): ++index[0], then the loop.
MultidimensionalIndex_increment(x) ==
  IF Len(x.index) = 0 THEN [self |-> x, res |-> "undefined"]
  ELSE carry([x EXCEPT !.index[1] = @ + 1, !.count = @ + 1], 1)

\* DatasetView::atLast()
atLast(x) == x.index = x.end

(***************************************************************************)
(* SpecIndex: increment() until atLast(), for vectors of up to three       *)
(* extents from 0 on.                                                      *)
(***************************************************************************)
InitIndex ==
  \E n \in 0..3 : \E dimension \in [1..n -> 0..(MaxExtent + 1)] :
    StartOn(MultidimensionalIndex_new(dimension))

\* One pass of `while (!atLast()) increment();`, given up after more passes
\* than the iteration space has elements.
Increment ==
  /\ ~atLast(subject)
  /\ subject.count <= volume([i \in 1..Len(subject.dimension) |->
                                [label |-> "X", size |-> subject.dimension[i]]])
  /\ last.res # "undefined"
  /\ ReturnOn(Call("increment", NoOperand, NoOperand),
              MultidimensionalIndex_increment(subject))

NextIndex == Increment

SpecIndex == InitIndex /\ [][NextIndex]_state

(***************************************************************************)
(* C30: from the all-zero index, increment() until atLast() visits every   *)
(* multi-index of the iteration space once, the first dimension varying    *)
(* fastest, and none when an extent is 0; it ends after finitely many      *)
(* calls, none of which touches a position outside the index vector.       *)
(***************************************************************************)
C30_IndexIteration ==
  LET RECURSIVE before(_)
      before(i) == IF i = 1 THEN 1 ELSE subject.dimension[i - 1] * before(i - 1)
      total == before(Len(subject.dimension) + 1)
  IN  /\ last.res # "undefined"
      /\ total = 0 => subject.count = 0
      /\ total > 0 =>
           /\ subject.count < total
           /\ atLast(subject) <=> subject.count = total - 1
           /\ \A i \in 1..Len(subject.index) :
                subject.index[i]
                  = (subject.count \div before(i)) % subject.dimension[i]

(***************************************************************************)
(* DatasetView (dataset_view.h, src/unnamed/part_004): the joint iteration *)
(* space of a tuple of selectors.  A selector is a tag, Slab<tag> or       *)
(* Bins<tag>, const or not, here with the Dimensions of its Variable.      *)
(***************************************************************************)
\* DimensionHelper<T>::get(dataset, fixedDimensions): the adjusted Dimensions.
RECURSIVE DimensionHelper_get(_, _)
DimensionHelper_get(sel, fixed) ==
  CASE sel.kind = "Slab" ->
         IF fixed = {} THEN sel.dims
         ELSE LET dim == CHOOSE d \in fixed : TRUE
              IN  DimensionHelper_get([sel EXCEPT !.dims = erase(@, dim)],
                                      fixed \ {dim})
    [] sel.kind = "Bins" ->
         resize(sel.dims, label(sel.dims, 1), sel.dims[1].size - 1)
    [] OTHER -> sel.dims

\* A variant of relevantDimensions that lets every selector write.
relevantDimensionsWritable(sels, fixed) ==
  LET variableDimensions ==
        [i \in 1..Len(sels) |-> DimensionHelper_get(sels[i], fixed)]
      largest ==
        variableDimensions[
          CHOOSE i \in 1..Len(sels) :
            /\ \A j \in 1..Len(sels) :
                 Len(variableDimensions[j]) <= Len(variableDimensions[i])
            /\ \A j \in 1..(i - 1) :
                 Len(variableDimensions[j]) < Len(variableDimensions[i])]
  IN  IF \E i \in 1..Len(sels) : ~containsDims(largest, variableDimensions[i])
      THEN [self |-> <<>>, res |-> "NoJointIterationSpace"]
      ELSE [self |-> largest, res |-> "ok"]

\* DatasetView::relevantDimensions: largest is the first of the adjusted
\* Dimensions that no other one exceeds in count() (std::max_element); the
\* loop throws at the first selector that fails one of the two tests.
relevantDimensions(sels, fixed) ==
  LET variableDimensions ==
        [i \in 1..Len(sels) |-> DimensionHelper_get(sels[i], fixed)]
      largest ==
        variableDimensions[
          CHOOSE i \in 1..Len(sels) :
            /\ \A j \in 1..Len(sels) :
                 Len(variableDimensions[j]) <= Len(variableDimensions[i])
            /\ \A j \in 1..(i - 1) :
                 Len(variableDimensions[j]) < Len(variableDimensions[i])]
      bad(i) == \/ ~containsDims(largest, variableDimensions[i])
                \/ ~(largest = variableDimensions[i] \/ sels[i].const)
  IN  IF \E i \in 1..Len(sels) : bad(i)
      THEN LET i == CHOOSE k \in 1..Len(sels) :
                      bad(k) /\ \A j \in 1..(k - 1) : ~bad(j)
           IN  [self |-> <<>>,
                res |-> IF ~containsDims(largest, variableDimensions[i])
                        THEN "NoJointIterationSpace" ELSE "BroadcastWrite"]
      ELSE [self |-> largest, res |-> "ok"]

(***************************************************************************)
(* SpecView: the construction of a DatasetView over one or two selectors,  *)
(* without fixed Dims or with Dim::Y fixed.                                *)
(***************************************************************************)
Selectors ==
  [kind : {"Tag", "Slab", "Bins"}, dims : Shapes, const : BOOLEAN]

InitView ==
  \E fixed \in {{}, {"Y"}} :
    \E sels \in {<<x>> : x \in Selectors} \cup {<<x, y>> : x, y \in Selectors} :
      /\ \A i \in 1..Len(sels) :
           /\ sels[i].kind = "Slab" => \A d \in fixed : contains(sels[i].dims, d)
           /\ sels[i].kind = "Bins" => Len(sels[i].dims) = 1
      /\ StartOn([selectors |-> sels, fixed |-> fixed,
                  exists |-> FALSE, relevant |-> <<>>])

\* DatasetView<Ts...> view(dataset, fixedDimensions)
ConstructView ==
  /\ Fresh
  /\ LET r == relevantDimensions(subject.selectors, subject.fixed)
     IN  ReturnOn(Call("DatasetView", NoOperand, NoOperand),
                  [self |-> [subject EXCEPT !.exists = (r.res = "ok"),
                                            !.relevant = r.self],
                   res |-> r.res])

NextView == ConstructView

SpecView == InitView /\ [][NextView]_state

\* The adjusted Dimensions of the selectors of the view under construction.
adjusted == [i \in 1..Len(subject.selectors) |->
               DimensionHelper_get(subject.selectors[i], subject.fixed)]

\* The construction succeeds with J as the joint space: every selector's
\* adjusted Dimensions are contained in J and the ones that differ are const.
joint(J) ==
  \A i \in 1..Len(adjusted) :
    /\ containsDims(J, adjusted[i])
    /\ adjusted[i] # J => subject.selectors[i].const

\* The positions of the adjusted Dimensions with the most dimensions.
most == {i \in 1..Len(adjusted) : \A j \in 1..Len(adjusted) :
                                    Len(adjusted[j]) <= Len(adjusted[i])}

(***************************************************************************)
(* C23 as stated: the construction succeeds if and only if the selectors   *)
(* are joint in J, for J the adjusted Dimensions with the most dimensions, *)
(* whichever of them that is when several have the most.                   *)
(***************************************************************************)
C23_JointSpaceAnyLargest ==
  last.op = "DatasetView" =>
    \A i \in most : (last.res = "ok" <=> joint(adjusted[i]))

(***************************************************************************)
(* C23: the construction of a DatasetView succeeds if and only if the      *)
(* selectors are joint in J, for J the adjusted Dimensions of the first    *)
(* selector among those with the most dimensions; otherwise it fails with  *)
(* an error and no view exists.                                            *)
(***************************************************************************)
C23_JointSpaceFirstLargest ==
  last.op = "DatasetView" =>
    LET first == CHOOSE i \in most : \A j \in most : i <= j
    IN  /\ last.res = "ok" <=> joint(adjusted[first])
        /\ last.res = "ok" => subject.exists /\ subject.relevant = adjusted[first]
        /\ last.res # "ok" => ~subject.exists

\* A view over a writable selector over {X, Y} and a const selector over
\* {Y, X}: both have the most dimensions, the first one is J.
C23_Witness ==
  /\ last.op = "DatasetView" /\ last.res = "ok"
  /\ Len(adjusted) = 2
  /\ ~subject.selectors[1].const /\ subject.selectors[2].const
  /\ adjusted[1] = D2("X", MaxExtent, "Y", MaxExtent)
  /\ adjusted[2] = D2("Y", MaxExtent, "X", MaxExtent)

(***************************************************************************)
(* LinearView (linear_view.h; its tests are in src/unnamed/part_002): a    *)
(* view of a Dataset whose Variables are all selected and all              *)
(* one-dimensional along the same Dim.                                     *)
(***************************************************************************)
\* LinearView<Tags...>(d), Tags being the tags of the first `selected`
\* Variables of d.
LinearView_new(d, selected) ==
  IF selected # Len(d.variables) THEN "NotAllVariables"
  ELSE IF \E k \in 1..Len(d.variables) : Len(d.variables[k].dims) # 1
  THEN "NotOneDimensional"
  ELSE IF Len(d.dimensions) # 1 THEN "NotOneDimensionalDataset"
  ELSE "ok"

\* A variant of push_back that writes the components in reverse order.
LinearView_push_backReversed(d, value) ==
  [d EXCEPT
     !.dimensions = [i \in 1..Len(@) |-> [@[i] EXCEPT !.size = @ + 1]],
     !.variables =
       [k \in 1..Len(@) |->
          [@[k] EXCEPT !.dims = resize(@, label(@, 1), @[1].size + 1),
                       !.data = Append(@, value[Len(value) + 1 - k])]]]

\* LinearView::push_back(value): every Variable grows by one along the Dim
\* and receives its component of the tuple.
LinearView_push_back(d, value) ==
  [d EXCEPT
     !.dimensions = [i \in 1..Len(@) |-> [@[i] EXCEPT !.size = @ + 1]],
     !.variables =
       [k \in 1..Len(@) |->
          [@[k] EXCEPT !.dims = resize(@, label(@, 1), @[1].size + 1),
                       !.data = Append(@, value[k])]]]

(***************************************************************************)
(* SpecLinear: Datasets of one or two Variables of length m, made as in    *)
(* the tests with elements 0, a LinearView of them, and push_back calls.   *)
(***************************************************************************)
InitLinear ==
  \E m \in 0..MaxExtent, two \in BOOLEAN, selected \in 1..2 :
  \E dims \in {<<>>, D1("X", m), D1("Y", m)} :
    LET x == [type |-> "X", name |-> "", dims |-> D1("X", m),
              data |-> [i \in 1..m |-> 0]]
        v == [type |-> "Value", name |-> "", dims |-> dims,
              data |-> [i \in 1..volume(dims) |-> 0]]
        d == IF two THEN Dataset_insert(Dataset_insert(NoDataset, x).self, v).self
             ELSE Dataset_insert(NoDataset, x).self
    IN  StartOn([variables |-> d.variables, dimensions |-> d.dimensions,
                 view |-> LinearView_new(d, selected), m |-> m,
                 pushed |-> <<>>])

PushBack ==
  /\ Deep
  /\ subject.view = "ok"
  /\ \E value \in [1..Len(subject.variables) -> {1, 2}] :
       ReturnOn(Call("push_back", NoOperand, NoOperand),
                [self |-> LinearView_push_back(
                            [subject EXCEPT !.pushed = Append(@, value)], value),
                 res |-> "ok"])

NextLinear == PushBack

SpecLinear == InitLinear /\ [][NextLinear]_state

(***************************************************************************)
(* C24: after n push_back calls on a LinearView over Variables of length m *)
(* every Variable has length m + n and Dimensions of extent m + n, its     *)
(* first m elements are unchanged and its element m + i is the component   *)
(* for it of the i-th pushed tuple; all Variables have the same length.    *)
(***************************************************************************)
C24_PushBack ==
  subject.view = "ok" =>
    \A k \in 1..Len(subject.variables) :
      LET var == subject.variables[k]
          n == Len(subject.pushed)
      IN  /\ Len(var.data) = subject.m + n
          /\ Len(var.dims) = 1 /\ var.dims[1].size = subject.m + n
          /\ \A i \in 1..subject.m : var.data[i] = 0
          /\ \A i \in 1..n : var.data[subject.m + i] = subject.pushed[i][k]
          /\ \A j \in 1..Len(subject.variables) :
               Len(subject.variables[j].data) = Len(var.data)

\* Two Variables of length MaxExtent after the tuples (1, 2) and (2, 1).
C24_Witness ==
  /\ last.op = "push_back"
  /\ Len(subject.variables) = 2 /\ subject.m = MaxExtent
  /\ subject.pushed = <<<<1, 2>>, <<2, 1>>>>
  /\ subject.variables[2].data[MaxExtent + 1] = 2

(***************************************************************************)
(* The loops under `#pragma omp parallel for`: the rows of                 *)
(* RebinHelper::rebinInner and the event lists of operator+=.  A kernel is *)
(* the heap together with what the loop body refers to; its iterations     *)
(* 0 .. count - 1 run in any order, `done` being the ones that have run.   *)
(***************************************************************************)
\* The kernel of rebin(a, old, new) along Dim::X at the call of rebinInner.
rebinKernel(m, xold, xnew) ==
  LET m1 == makeVariable(withLocals(m), "old", "X", D1("X", Len(xold)), xold)
      m2 == makeVariable(m1, "new", "X", D1("X", Len(xnew)), xnew)
      m3 == Variable_setDimensions(
              Variable_assign(m2, "tmp", "a"), "tmp",
              resize(dimensions(m, "a"), "X", Len(xnew) - 1))
      m4 == Variable_data(m3, "tmp")
      oldSize == size(dimensions(m, "a"), "X")
  IN  [kernel |-> "rebin", heap |-> m4.heap, first |-> m4.heap, done |-> {},
       count |-> volume(dimensions(m, "a")) \div oldSize,
       p |-> [old |-> constData(m4, "a").obj, new |-> mutableData(m4, "tmp").obj,
              xold |-> xold, xnew |-> xnew, oldSize |-> oldSize,
              newSize |-> Len(xnew) - 1],
       lo |-> 0, li |-> <<>>, ro |-> 0, ri |-> <<>>, dim |-> "X"]

\* The kernel of `t += o` on event lists at the loop: datasets, otherDatasets
\* and dim as operator+= has them after its checks.
eventsKernel(m, t, o) ==
  LET x == operand(m, o)
      m1 == IF t.slice THEN VariableSlice_new(x.m, t).m ELSE access(x.m, t.v)
      c1 == IF t.slice THEN VariableSlice_new(x.m, t).c ELSE mutableData(m1, t.v)
      li == castIndices(m1.heap, c1)
  IN  [kernel |-> "events", heap |-> m1.heap, first |-> m1.heap, done |-> {},
       count |-> Len(li),
       p |-> [old |-> 0, new |-> 0, xold |-> <<>>, xnew |-> <<>>,
              oldSize |-> 0, newSize |-> 0],
       lo |-> c1.obj, li |-> li, ro |-> x.c.obj,
       ri |-> castIndices(x.m.heap, x.c),
       dim |-> label(m1.heap[c1.obj].data[li[1]], 1)]

\* The heap after iteration c of the loop of kernel x on the heap h.
iteration(x, h, c) ==
  IF x.kernel = "rebin" THEN rebinInnerRow(h, x.p, c, 0, 0).heap
  ELSE [h EXCEPT ![x.lo].data[x.li[c + 1]] =
          Dataset_concatenate(h[x.lo].data[x.li[c + 1]],
                              h[x.ro].data[x.ri[c + 1]], x.dim)]

\* The elements iteration c writes and the ones it reads.
writes(x, c) ==
  IF x.kernel = "rebin"
  THEN {<<x.p.new, c * x.p.newSize + k>> : k \in 1..x.p.newSize}
  ELSE {<<x.lo, x.li[c + 1]>>}

reads(x, c) ==
  IF x.kernel = "rebin"
  THEN {<<x.p.old, c * x.p.oldSize + k>> : k \in 1..x.p.oldSize}
         \cup writes(x, c)
  ELSE {<<x.lo, x.li[c + 1]>>, <<x.ro, x.ri[c + 1]>>}

(***************************************************************************)
(* SpecParallel: the iterations of one kernel in every order.  The rebin   *)
(* kernels rebin one or two rows with increasing edges; the event-list     *)
(* kernels add to `a`, or to a range of it, a Variable or a range of equal *)
(* Dimensions, of `a` itself or of `b`.                                    *)
(***************************************************************************)
InitParallelRebin ==
  \E da \in {D1("X", n) : n \in Extents}
              \cup {D2("X", n, "Y", k) : n \in Extents, k \in Extents} :
    \E xold \in EdgeLists(da[1].size), xnew \in UNION {EdgeLists(k) : k \in Extents} :
      /\ increasing(xold) /\ increasing(xnew)
      /\ StartOn(rebinKernel(
                   make(Empty, "a", [tag |-> "Value", dims |-> da,
                                     unit |-> "Dimensionless", name |-> ""], 1),
                   xold, xnew))

InitParallelEvents ==
  \E n \in 1..(MaxExtent + 1) :
    LET r == [tag |-> "Events", dims |-> D1("X", n),
              unit |-> "Dimensionless", name |-> ""]
        m == withLocals(make(make(Empty, "a", r, 1), "b", r, 1))
        ranges(v, c) == {Slice(v, c, <<R("X", b, e)>>) :
                           b \in 0..(n - 1), e \in 1..n}
    IN  \E t \in {Var("a")} \cup ranges("a", FALSE),
           o \in {Var("a"), Var("b")} \cup ranges("a", TRUE) \cup ranges("b", TRUE) :
          /\ \A q \in {t, o} : q.slice => q.restr[1].begin < q.restr[1].end
          /\ operandDims(m, t) = operandDims(m, o)
          /\ StartOn(eventsKernel(m, t, o))

InitParallel == InitParallelRebin \/ InitParallelEvents

\* An iteration that has not run yet runs.
RunIteration ==
  \E c \in 0..(subject.count - 1) :
    /\ c \notin subject.done
    /\ ReturnOn([Call("iteration", NoOperand, NoOperand) EXCEPT !.idx = c],
                [self |-> [subject EXCEPT !.heap = iteration(subject, @, c),
                                          !.done = @ \cup {c}],
                 res |-> "ok"])

NextParallel == RunIteration

SpecParallel == InitParallel /\ [][NextParallel]_state

(***************************************************************************)
(* C26: in the rebin fast path and in the event-list `+=` no two           *)
(* iterations write the same element and none reads an element another one *)
(* writes, so that the iterations in any order give what they give in      *)
(* index order.                                                            *)
(***************************************************************************)
C26_DataParallel ==
  LET RECURSIVE inOrder(_, _)
      inOrder(h, c) ==
        IF c >= subject.count THEN h
        ELSE inOrder(iteration(subject, h, c), c + 1)
  IN  /\ \A c \in subject.done, e \in 0..(subject.count - 1) :
           c # e => /\ writes(subject, c) \cap writes(subject, e) = {}
                    /\ reads(subject, c) \cap writes(subject, e) = {}
      /\ subject.done = 0..(subject.count - 1) =>
           subject.heap = inOrder(subject.first, 0)

====
